---- MODULE Spec2Model ----
(***************************************************************************)
(* Model of the fintech risk agent: the decision orchestrator              *)
(* (src/src/core/decision_engine.py), the entity graph                     *)
(* (src/src/graph/entity_graph.py), the AML rules and the STR queue        *)
(* (src/src/rules/aml_rules.py) and the metrics collector                  *)
(* (src/src/monitoring/metrics.py).                                        *)
(*                                                                         *)
(* Scores are exact rationals in thousandths (1000 = 1.0); model weights   *)
(* are in tenths (7 = 0.7); signal weights are in hundredths.              *)
(***************************************************************************)
EXTENDS Integers, Sequences, FiniteSets, TLC

VARIABLES
    config,          \* RiskDecisionEngine.config, loaded once by __init__
    high_risk_threshold, low_risk_threshold,   \* engine attributes set by __init__
    engine_pc,       \* "ready" for a call, "returned" while the caller holds the result
    call,            \* arguments and producer outputs of the last score_transaction
    run,             \* what the last score_transaction did and returned
    nodes,           \* EntityGraph.nodes: entity_id -> EntityNode
    edges,           \* EntityGraph.edges: list of EntityEdge
    adjacency_list,  \* EntityGraph.adjacency_list: entity_id -> list of target ids
    detect_pc,       \* "idle", "bfs" (inside _bfs_neighbors) or "returned"
    detect_call,     \* the detector call in progress: kind, user_id, max_depth
    visited,         \* _bfs_neighbors: visited
    queue,           \* _bfs_neighbors: queue of (id, depth)
    expansions,      \* per node, how often this traversal added it to visited
    iterations,      \* how many times the while loop of this traversal has run
    detect_ret,      \* the value the detector returned
    aml_call,        \* the last AMLRulesEngine call: method and arguments
    aml_ret,         \* the value it returned
    pending_strs,    \* STRFilingQueue.pending_strs
    filed_strs,      \* STRFilingQueue.filed_strs
    enqueue_calls,   \* how many times enqueue_str has been called
    str_call,        \* the last STRFilingQueue call: method and arguments
    str_ret,         \* the value it returned
    total_decisions, allowed_count, blocked_count, review_count,   \* MetricsCollector counters
    latencies,       \* MetricsCollector.latency_bucket.latencies
    metrics,         \* MetricsCollector.metrics
    decisions_by_country,      \* MetricsCollector.decisions_by_country
    decisions_by_demographic,  \* MetricsCollector.decisions_by_demographic
    record_call,     \* the last record_decision call: its arguments
    record_ret,      \* "returned", or the exception the call raised
    true_positives, false_positives, false_negatives, true_negatives,   \* feedback counters
    latency_ret,     \* the dict get_latency_metrics returned, empty before a query
    prev,            \* the previous score_transaction call and result, kept by the caller
    writer,          \* the thread inside add_relationship: its position and arguments
    threads          \* the threads inside MetricsCollector methods: position and locals

engine_vars ==
    <<config, high_risk_threshold, low_risk_threshold, engine_pc, call, run, prev>>
graph_vars == <<nodes, edges, adjacency_list>>
detect_vars == <<detect_pc, detect_call, visited, queue, expansions, iterations, detect_ret>>
aml_vars == <<aml_call, aml_ret>>
str_vars == <<pending_strs, filed_strs, enqueue_calls, str_call, str_ret>>
metrics_vars ==
    <<total_decisions, allowed_count, blocked_count, review_count, latencies, metrics,
      decisions_by_country, decisions_by_demographic, record_call, record_ret,
      true_positives, false_positives, false_negatives, true_negatives, latency_ret>>
vars ==
    <<engine_vars, graph_vars, detect_vars, aml_vars, str_vars, metrics_vars,
      writer, threads>>

(***************************************************************************)
(* Python values                                                           *)
(***************************************************************************)
EmptyDict == <<>>

\* dict.get(key, default)
DictGet(d, key, default) == IF key \in DOMAIN d THEN d[key] ELSE default

Max(a, b) == IF a >= b THEN a ELSE b
Min(a, b) == IF a <= b THEN a ELSE b

\* seq[:n]
Take(s, n) == SubSeq(s, 1, Min(n, Len(s)))

(***************************************************************************)
(* Signal names are character strings, kept as sequences of characters so  *)
(* that signal_name.upper().replace(" ", "_") is computed, not assumed.    *)
(***************************************************************************)
Lower == <<"a","b","c","d","e","f","g","h","i","j","k","l","m",
           "n","o","p","q","r","s","t","u","v","w","x","y","z">>
UpperOf == <<"A","B","C","D","E","F","G","H","I","J","K","L","M",
             "N","O","P","Q","R","S","T","U","V","W","X","Y","Z">>

\* str.upper() on one character
UpperChar(c) ==
    IF \E i \in 1..Len(Lower) : Lower[i] = c
    THEN UpperOf[CHOOSE i \in 1..Len(Lower) : Lower[i] = c]
    ELSE c

\* str.replace(" ", "_") on one character
ReplaceSpace(c) == IF c = " " THEN "_" ELSE c

\* reason.signal_name.upper().replace(" ", "_")
ReasonCode(signal_name) ==
    [i \in 1..Len(signal_name) |-> ReplaceSpace(UpperChar(signal_name[i]))]

\* DecisionReason, reduced to the fields the engine reads
Reason(name, w) == [signal_name |-> name, weight |-> w]

(***************************************************************************)
(* Signal producers.  The producers are pluggable; the source ships stubs. *)
(* Their outputs are inputs of the model: a score and a list of reasons.   *)
(***************************************************************************)
\* _score_ml_model stub: score 0.15 and three reasons
MlStub == [score |-> 150, reasons |-> <<
    Reason(<<"N","o","r","m"," ","V","e","l">>, 5),
    Reason(<<"T","r","u","s","t"," ","D","e","v">>, 3),
    Reason(<<"N","o","r","m"," ","B","e","h">>, 7) >>]

\* _evaluate_rules stub: score 0.1 and two reasons
RulesStub == [score |-> 100, reasons |-> <<
    Reason(<<"A","m","t"," ","O","k">>, 5),
    Reason(<<"G","o","o","d"," ","T","i","e","r">>, 5) >>]

\* _check_aml stub: score 0.0 and one weightless reason
AmlStub == [score |-> 0, reasons |-> <<
    Reason(<<"N","o"," ","H","i","t">>, 0) >>]

\* _analyze_entity_graph stub: score 0.0 and one weightless reason
GraphStub == [score |-> 0, reasons |-> <<
    Reason(<<"N","o"," ","M","u","l","e">>, 0) >>]

\* Other outputs a producer of that interface can return
MlOutputs == {MlStub,
    [score |-> 1000, reasons |-> << Reason(<<"H","i"," ","V","e","l">>, 60) >>],
    [score |-> 500, reasons |-> << >>]}

RulesOutputs == {RulesStub,
    [score |-> 1000, reasons |-> << Reason(<<"A","m","t"," ","H","i">>, 40) >>],
    [score |-> 0, reasons |-> << >>]}

AmlOutputs == {AmlStub,
    [score |-> 950, reasons |-> << Reason(<<"O","f","a","c"," ","H","i","t">>, 95) >>],
    [score |-> 500, reasons |-> << >>]}

GraphOutputs == {GraphStub,
    [score |-> 350, reasons |-> << Reason(<<"D","e","v"," ","R","i","n","g">>, 35) >>],
    [score |-> 1000, reasons |-> << >>]}

(***************************************************************************)
(* Arguments of score_transaction.  An argument is either None or a dict.  *)
(***************************************************************************)
NoneArg == [is_none |-> TRUE]
DictArg(d) == [is_none |-> FALSE, d |-> d]

Transactions == {NoneArg, DictArg([id |-> "txn_1", amount |-> 100])}

Contexts == {NoneArg, DictArg(EmptyDict),
             DictArg([user_country |-> "US"]), DictArg([user_country |-> "DE"])}

\* The stage at which an injected producer fault throws ("none": no fault)
Faults == {"none", "ENRICH", "MODEL_SCORE", "RULES_SCORE", "AML_SCORE", "GRAPH_SCORE"}

(***************************************************************************)
(* Configuration: _load_config returns the YAML document or the defaults.  *)
(***************************************************************************)
DefaultWeights == [ml_score |-> 7, rules_score |-> 3]

DefaultConfig == [high_risk_threshold |-> 800, low_risk_threshold |-> 300,
                  max_latency_ms |-> 100,
                  enable_aml_screening |-> TRUE, enable_graph_analysis |-> TRUE,
                  model_weights |-> DefaultWeights]

\* YAML documents: thresholds, flags and (possibly absent or partial) weights
YamlThresholds == {[high_risk_threshold |-> 800, low_risk_threshold |-> 300],
                   [high_risk_threshold |-> 500, low_risk_threshold |-> 500]}
YamlFlags == {[enable_aml_screening |-> a, enable_graph_analysis |-> g] :
                  a \in BOOLEAN, g \in BOOLEAN}
YamlWeights == {EmptyDict,
                [model_weights |-> [ml_score |-> 5, rules_score |-> 5]],
                [model_weights |-> [ml_score |-> 10, rules_score |-> 10]],
                [model_weights |-> [ml_score |-> 70, rules_score |-> 30]],
                [model_weights |-> [rules_score |-> 3]]}

\* dict union of records with disjoint keys
Merge(f, g) == [k \in DOMAIN f \cup DOMAIN g |-> IF k \in DOMAIN f THEN f[k] ELSE g[k]]

Configs == {DefaultConfig} \cup
           {Merge(Merge(t, f), w) : t \in YamlThresholds, f \in YamlFlags, w \in YamlWeights}

(***************************************************************************)
(* Pipeline stages of score_transaction                                    *)
(***************************************************************************)
\* _enrich_features: the feature bag; only transaction and context are read later
_enrich_features(transaction, context) ==
    [transaction |-> transaction, context |-> context]

\* list.sort(key=weight, reverse=True) is stable: insert r behind every element
\* whose weight is at least r's
InsertDesc(sorted, r) ==
    LET k == Cardinality({i \in 1..Len(sorted) : sorted[i].weight >= r.weight})
    IN  SubSeq(sorted, 1, k) \o <<r>> \o SubSeq(sorted, k + 1, Len(sorted))

RECURSIVE SortDesc(_)
SortDesc(s) ==
    IF s = <<>> THEN <<>>
    ELSE InsertDesc(SortDesc(SubSeq(s, 1, Len(s) - 1)), s[Len(s)])

\* _combine_scores: weighted blend of the ML and rules scores; the reasons of
\* both, sorted by weight descending.  KeyError when a weight is missing.
_combine_scores(cfg, ml_score, ml_reasons, rules_score, rules_reasons) ==
    LET weights == DictGet(cfg, "model_weights", DefaultWeights) IN
    IF ~({"ml_score", "rules_score"} \subseteq DOMAIN weights)
    THEN [raised |-> TRUE]
    ELSE [raised |-> FALSE,
          combined_score |->
              (weights["ml_score"] * ml_score + weights["rules_score"] * rules_score) \div 10,
          all_reasons |-> SortDesc(ml_reasons \o rules_reasons)]

\* _extract_reason_codes(reasons, top_n=3)
_extract_reason_codes(reasons) ==
    LET top == Take(reasons, 3)
    IN  [i \in 1..Len(top) |-> ReasonCode(top[i].signal_name)]

\* Elements of the unflattened reason_codes list: a string or a list of strings
CodeStr(s) == [is_list |-> FALSE, v |-> s]
CodeList(l) == [is_list |-> TRUE, v |-> l]

\* [code for codes in reason_codes for code in (codes if isinstance(codes, list) else [codes])]
RECURSIVE Flatten(_)
Flatten(l) ==
    IF l = <<>> THEN <<>>
    ELSE (IF l[1].is_list THEN l[1].v ELSE <<l[1].v>>) \o Flatten(Tail(l))

HIGH_RISK_SCORE == <<"H","I","G","H","_","R","I","S","K","_","S","C","O","R","E">>
LOW_RISK == <<"L","O","W","_","R","I","S","K">>
MEDIUM_RISK == <<"M","E","D","I","U","M","_","R","I","S","K">>
ENGINE_ERROR == <<"E","N","G","I","N","E","_","E","R","R","O","R">>

\* Mutant of PolicyBranch: the thresholds are compared strictly
PolicyBranchStrict(risk_score, reasons, high, low) ==
    IF risk_score > high
    THEN [decision |-> "BLOCK", risk_level |-> "HIGH",
          reason_codes |-> <<CodeStr(HIGH_RISK_SCORE),
                             CodeList(Take(_extract_reason_codes(reasons), 3))>>,
          next_actions |-> <<"BLOCK", "ESCALATE_TO_COMPLIANCE", "STORE_FOR_INVESTIGATION">>]
    ELSE IF risk_score < low
    THEN [decision |-> "ALLOW", risk_level |-> "LOW",
          reason_codes |-> <<CodeStr(LOW_RISK)>>,
          next_actions |-> <<"APPROVE", "MONITOR">>]
    ELSE [decision |-> "REVIEW", risk_level |-> "MEDIUM",
          reason_codes |-> <<CodeStr(MEDIUM_RISK),
                             CodeList(Take(_extract_reason_codes(reasons), 2))>>,
          next_actions |-> <<"MANUAL_REVIEW", "REQUEST_ADDITIONAL_VERIFICATION">>]

\* The three branches of the policy: decision, level, unflattened codes, actions
PolicyBranch(risk_score, reasons, high, low) ==
    IF risk_score >= high
    THEN [decision |-> "BLOCK", risk_level |-> "HIGH",
          reason_codes |-> <<CodeStr(HIGH_RISK_SCORE),
                             CodeList(Take(_extract_reason_codes(reasons), 3))>>,
          next_actions |-> <<"BLOCK", "ESCALATE_TO_COMPLIANCE", "STORE_FOR_INVESTIGATION">>]
    ELSE IF risk_score <= low
    THEN [decision |-> "ALLOW", risk_level |-> "LOW",
          reason_codes |-> <<CodeStr(LOW_RISK)>>,
          next_actions |-> <<"APPROVE", "MONITOR">>]
    ELSE [decision |-> "REVIEW", risk_level |-> "MEDIUM",
          reason_codes |-> <<CodeStr(MEDIUM_RISK),
                             CodeList(Take(_extract_reason_codes(reasons), 2))>>,
          next_actions |-> <<"MANUAL_REVIEW", "REQUEST_ADDITIONAL_VERIFICATION">>]

\* Mutant of StepUp: a context without user_country is taken to be domestic
StepUpDefaultUS(context) == DictGet(context.d, "user_country", "US") # "US"

\* The step-up test: features.get("context", {}).get("user_country") != "US"
StepUp(context) == DictGet(context.d, "user_country", "None") # "US"

\* _apply_decision_policy.  AttributeError when the context is None.
_apply_decision_policy(risk_score, reasons, features, high, low) ==
    LET b == PolicyBranch(risk_score, reasons, high, low) IN
    IF features.context.is_none
    THEN [raised |-> TRUE]
    ELSE [raised |-> FALSE,
          decision |-> b.decision,
          risk_level |-> b.risk_level,
          reason_codes |-> Flatten(b.reason_codes),
          next_actions |-> IF StepUp(features.context)
                           THEN Append(b.next_actions, "SCA_STEP_UP")
                           ELSE b.next_actions]

\* _generate_explanation: the number of reason codes and the top three reasons
_generate_explanation(reasons, reason_codes) ==
    [n_codes |-> Len(reason_codes), top_reasons |-> Take(reasons, 3)]

\* _log_compliance: builds the log entry from the decision and the transaction.
\* AttributeError when the transaction is None.
_log_compliance(decision, transaction) ==
    IF transaction.is_none THEN [raised |-> TRUE] ELSE [raised |-> FALSE]

\* Mutant of FailSafe: the except branch fails open
FailOpen ==
    [decision |-> "ALLOW", risk_score |-> 0, risk_level |-> "LOW",
     reasons |-> <<>>, reason_codes |-> <<ENGINE_ERROR>>,
     next_actions |-> <<"MANUAL_REVIEW">>,
     explanation |-> [error |-> TRUE]]

\* The fail-safe RiskDecision built by the except branch of score_transaction
FailSafe ==
    [decision |-> "REVIEW", risk_score |-> 500, risk_level |-> "MEDIUM",
     reasons |-> <<>>, reason_codes |-> <<ENGINE_ERROR>>,
     next_actions |-> <<"MANUAL_REVIEW">>,
     explanation |-> [error |-> TRUE]]

\* except Exception: the run ends at `stage` and returns the fail-safe decision.
\* `policy` keeps what the policy stage had computed, if it had completed.
Caught(trace, stage, policy) ==
    [trace |-> trace, failed_at |-> stage, policy |-> policy, ret |-> FailSafe]

NoPolicy == [raised |-> TRUE]

\* Mutant of OverrideCombine: the override score is blended additively
AdditiveCombine(combined_score, score) == combined_score + score

\* combined_score = max(combined_score, aml_score) and its twin for the graph score
OverrideCombine(combined_score, score) == Max(combined_score, score)

\* Steps 6 to 9 of score_transaction: policy, decision object, compliance log
PolicyAndLog(trace, combined_score, all_reasons, features, transaction, high, low) ==
    LET t_policy == Append(trace, "POLICY")
        p == _apply_decision_policy(combined_score, all_reasons, features, high, low)
    IN
    IF p.raised THEN Caught(t_policy, "POLICY", NoPolicy)
    ELSE
    LET decision_obj ==
            [decision |-> p.decision, risk_score |-> combined_score,
             risk_level |-> p.risk_level, reasons |-> all_reasons,
             reason_codes |-> p.reason_codes, next_actions |-> p.next_actions,
             explanation |-> [error |-> FALSE,
                              text |-> _generate_explanation(all_reasons, p.reason_codes)]]
        applied == [raised |-> FALSE, risk_score |-> combined_score,
                    decision_obj |-> decision_obj]
        t_log == Append(t_policy, "LOG")
    IN
    IF _log_compliance(decision_obj, transaction).raised
    THEN Caught(t_log, "LOG", applied)
    ELSE [trace |-> t_log, failed_at |-> "none", policy |-> applied, ret |-> decision_obj]

\* Mutant of Overrides: the AML stage runs whether or not it is enabled
OverridesUngated(cfg, trace, combined_score, all_reasons, features, transaction, fault, aml, graph, high, low) ==
    LET graph_on == DictGet(cfg, "enable_graph_analysis", FALSE)
        t_aml == Append(trace, "AML_SCORE")
        score_aml == OverrideCombine(combined_score, aml.score)
        reasons_aml == all_reasons \o aml.reasons
        t_graph == IF graph_on THEN Append(t_aml, "GRAPH_SCORE") ELSE t_aml
        score_graph == IF graph_on THEN OverrideCombine(score_aml, graph.score)
                       ELSE score_aml
        reasons_graph == IF graph_on THEN reasons_aml \o graph.reasons ELSE reasons_aml
    IN
    IF fault = "AML_SCORE" THEN Caught(t_aml, "AML_SCORE", NoPolicy)
    ELSE IF graph_on /\ fault = "GRAPH_SCORE" THEN Caught(t_graph, "GRAPH_SCORE", NoPolicy)
    ELSE PolicyAndLog(t_graph, score_graph, reasons_graph, features, transaction, high, low)

\* Steps 4 and 5 of score_transaction: the AML and graph overrides, when enabled
Overrides(cfg, trace, combined_score, all_reasons, features, transaction, fault, aml, graph, high, low) ==
    LET aml_on == DictGet(cfg, "enable_aml_screening", FALSE)
        graph_on == DictGet(cfg, "enable_graph_analysis", FALSE)
        t_aml == IF aml_on THEN Append(trace, "AML_SCORE") ELSE trace
        score_aml == IF aml_on THEN OverrideCombine(combined_score, aml.score)
                     ELSE combined_score
        reasons_aml == IF aml_on THEN all_reasons \o aml.reasons ELSE all_reasons
        t_graph == IF graph_on THEN Append(t_aml, "GRAPH_SCORE") ELSE t_aml
        score_graph == IF graph_on THEN OverrideCombine(score_aml, graph.score)
                       ELSE score_aml
        reasons_graph == IF graph_on THEN reasons_aml \o graph.reasons ELSE reasons_aml
    IN
    IF aml_on /\ fault = "AML_SCORE" THEN Caught(t_aml, "AML_SCORE", NoPolicy)
    ELSE IF graph_on /\ fault = "GRAPH_SCORE" THEN Caught(t_graph, "GRAPH_SCORE", NoPolicy)
    ELSE PolicyAndLog(t_graph, score_graph, reasons_graph, features, transaction, high, low)

\* score_transaction: the whole pipeline inside its try/except
score_transaction(cfg, high, low, transaction, context, fault, ml, rules, aml, graph) ==
    LET features == _enrich_features(transaction, context)
        c == _combine_scores(cfg, ml.score, ml.reasons, rules.score, rules.reasons)
        t_rules == <<"ENRICH", "MODEL_SCORE", "RULES_SCORE">>
        t_combine == Append(t_rules, "COMBINE")
    IN
    IF fault = "ENRICH" THEN Caught(SubSeq(t_rules, 1, 1), "ENRICH", NoPolicy)
    ELSE IF fault = "MODEL_SCORE" THEN Caught(SubSeq(t_rules, 1, 2), "MODEL_SCORE", NoPolicy)
    ELSE IF fault = "RULES_SCORE" THEN Caught(t_rules, "RULES_SCORE", NoPolicy)
    ELSE IF c.raised THEN Caught(t_combine, "COMBINE", NoPolicy)
    ELSE Overrides(cfg, t_combine, c.combined_score, c.all_reasons, features,
                   transaction, fault, aml, graph, high, low)

(***************************************************************************)
(* Entity graph (src/src/graph/entity_graph.py).  Risk scores of the       *)
(* detectors are in hundredths (35 = 0.35).                                *)
(***************************************************************************)
EntityType == {"USER", "DEVICE", "IP_ADDRESS", "PAYMENT_METHOD", "MERCHANT", "PHONE", "EMAIL"}
RelationType == {"OWNS", "USES", "SHARED_WITH", "CONNECTED_TO", "LINKED_TO"}

\* Entity ids, entity types, attributes and relation types the callers pass
Ids == {"e1", "e2", "e3"}
AddedTypes == {"USER", "DEVICE"}
AddedEntities ==
    {<<"USER", EmptyDict>>, <<"USER", [kyc |-> TRUE]>>, <<"DEVICE", EmptyDict>>,
     <<"PAYMENT_METHOD", EmptyDict>>}
AddedRelations == {"OWNS", "USES"}

\* The most edges a graph of the model holds
MaxEdges == 2

\* EntityNode(entity_id, entity_type, attributes); risk_score and last_seen
\* keep their defaults, nothing in the graph writes them
EntityNode(entity_id, entity_type, attributes) ==
    [entity_id |-> entity_id, entity_type |-> entity_type, attributes |-> attributes]

\* EntityEdge(source_id, target_id, relation_type, weight, transaction_count)
EntityEdge(source_id, target_id, relation_type, weight, transaction_count) ==
    [source_id |-> source_id, target_id |-> target_id, relation_type |-> relation_type,
     weight |-> weight, transaction_count |-> transaction_count]

\* d[key] = value on a dict
DictPut(d, key, value) ==
    [k \in DOMAIN d \cup {key} |-> IF k = key THEN value ELSE d[k]]

\* The graph object as a value: the three attributes of EntityGraph
Graph(ns, es, adj) == [nodes |-> ns, edges |-> es, adjacency_list |-> adj]

\* Mutant of add_entity: the adjacency entry is reset on every call
add_entity_resetting(g, entity_id, entity_type, attributes) ==
    Graph(DictPut(g.nodes, entity_id, EntityNode(entity_id, entity_type, attributes)),
          g.edges,
          DictPut(g.adjacency_list, entity_id, <<>>))

\* EntityGraph.add_entity
add_entity(g, entity_id, entity_type, attributes) ==
    Graph(DictPut(g.nodes, entity_id, EntityNode(entity_id, entity_type, attributes)),
          g.edges,
          IF entity_id \notin DOMAIN g.adjacency_list
          THEN DictPut(g.adjacency_list, entity_id, <<>>)
          ELSE g.adjacency_list)

\* Mutant of EnsureNode: the endpoint is (re)created whether or not it exists
EnsureNodeAlways(g, entity_id, entity_type) ==
    add_entity(g, entity_id, entity_type, EmptyDict)

\* add_relationship, "ensure nodes exist": create the endpoint only if missing
EnsureNode(g, entity_id, entity_type) ==
    IF entity_id \notin DOMAIN g.nodes
    THEN add_entity(g, entity_id, entity_type, EmptyDict)
    ELSE g

\* EntityGraph.add_relationship
add_relationship(g, source_id, target_id, relation_type, weight, transaction_count) ==
    LET g1 == EnsureNode(g, source_id, "USER")
        g2 == EnsureNode(g1, target_id, "DEVICE")
    IN  Graph(g2.nodes,
              Append(g2.edges, EntityEdge(source_id, target_id, relation_type,
                                          weight, transaction_count)),
              [g2.adjacency_list EXCEPT ![source_id] = Append(@, target_id)])

(***************************************************************************)
(* _bfs_neighbors: one iteration of the while loop, and the whole loop     *)
(***************************************************************************)
\* The neighbours the for loop appends: those not visited, one level deeper
Enqueued(adj, seen, current_id, depth, max_depth) ==
    LET ns == IF current_id \in DOMAIN adj
              THEN SelectSeq(adj[current_id],
                             LAMBDA n : n \notin seen /\ depth + 1 <= max_depth)
              ELSE <<>>
    IN  [i \in 1..Len(ns) |-> <<ns[i], depth + 1>>]

\* Mutant of BfsIteration: a popped node is expanded without testing visited
BfsIterationNoVisitedCheck(adj, b, max_depth) ==
    LET current_id == b.queue[1][1]
        depth == b.queue[1][2]
        rest == Tail(b.queue)
    IN  IF depth > max_depth
        THEN [visited |-> b.visited, queue |-> rest, expanded |-> {}]
        ELSE [visited |-> b.visited \cup {current_id},
              queue |-> rest \o Enqueued(adj, b.visited \cup {current_id},
                                         current_id, depth, max_depth),
              expanded |-> {current_id}]

\* Mutant of BfsIteration: a node popped at exactly max_depth is skipped
BfsIterationStrictDepth(adj, b, max_depth) ==
    LET current_id == b.queue[1][1]
        depth == b.queue[1][2]
        rest == Tail(b.queue)
    IN  IF current_id \in b.visited \/ depth >= max_depth
        THEN [visited |-> b.visited, queue |-> rest, expanded |-> {}]
        ELSE [visited |-> b.visited \cup {current_id},
              queue |-> rest \o Enqueued(adj, b.visited \cup {current_id},
                                         current_id, depth, max_depth),
              expanded |-> {current_id}]

\* One pass through the body of `while queue:`; b is [visited, queue].
\* expanded: the node this pass added to visited, if any.
BfsIteration(adj, b, max_depth) ==
    LET current_id == b.queue[1][1]
        depth == b.queue[1][2]
        rest == Tail(b.queue)
    IN  IF current_id \in b.visited \/ depth > max_depth
        THEN [visited |-> b.visited, queue |-> rest, expanded |-> {}]
        ELSE [visited |-> b.visited \cup {current_id},
              queue |-> rest \o Enqueued(adj, b.visited \cup {current_id},
                                         current_id, depth, max_depth),
              expanded |-> {current_id}]

RECURSIVE BfsLoop(_, _, _)
BfsLoop(adj, b, max_depth) ==
    IF b.queue = <<>> THEN b.visited
    ELSE BfsLoop(adj, BfsIteration(adj, b, max_depth), max_depth)

\* EntityGraph._bfs_neighbors
_bfs_neighbors(g, start_id, max_depth) ==
    BfsLoop(g.adjacency_list, [visited |-> {}, queue |-> << <<start_id, 0>> >>], max_depth)

(***************************************************************************)
(* Detectors.  The lists they build by iterating a set are kept as sets.   *)
(***************************************************************************)
\* Indexes of the edges out of source_id with relation OWNS
OwnsEdgesFrom(g, source_id) ==
    {i \in 1..Len(g.edges) : /\ g.edges[i].source_id = source_id
                             /\ g.edges[i].relation_type = "OWNS"}

\* Indexes of the OWNS edges into target_id
OwnsEdgesTo(g, target_id) ==
    {i \in 1..Len(g.edges) : /\ g.edges[i].target_id = target_id
                             /\ g.edges[i].relation_type = "OWNS"}

\* EntityGraph._find_shared_devices: one entry per OWNS edge of the user whose
\* target has more than one OWNS edge into it (kept as edge indexes)
_find_shared_devices(g, user_id) ==
    {i \in OwnsEdgesFrom(g, user_id) :
        Cardinality(OwnsEdgesTo(g, g.edges[i].target_id)) > 1}

\* resource_map of _find_shared_resources: the count of a resource
ResourceCount(g, user_ids, resource_type, resource_id) ==
    Cardinality({i \in 1..Len(g.edges) :
        /\ g.edges[i].source_id \in user_ids
        /\ g.edges[i].relation_type = "OWNS"
        /\ g.edges[i].target_id = resource_id
        /\ resource_id \in DOMAIN g.nodes
        /\ g.nodes[resource_id].entity_type = resource_type})

\* EntityGraph._find_shared_resources
_find_shared_resources(g, user_ids, resource_type) ==
    {rid \in DOMAIN g.nodes : ResourceCount(g, user_ids, resource_type, rid) > 1}

\* The entities of a type among the connected ones
OfType(g, ids, entity_type) ==
    {eid \in ids : eid \in DOMAIN g.nodes /\ g.nodes[eid].entity_type = entity_type}

\* A pattern code f"{prefix}_{n}"
Pattern(prefix, n) == <<prefix, n>>

\* The result of detect_fraud_ring once the traversal has returned all_connected
FraudRingResult(g, all_connected) ==
    LET users_in_network == OfType(g, all_connected, "USER")
        shared_devices == _find_shared_resources(g, users_in_network, "DEVICE")
        shared_payment_methods ==
            _find_shared_resources(g, users_in_network, "PAYMENT_METHOD")
        shared_ips == _find_shared_resources(g, users_in_network, "IP_ADDRESS")
        dev == Cardinality(shared_devices) > 1
        pay == Cardinality(shared_payment_methods) > 0
        ips == Cardinality(shared_ips) > 1
    IN  [risk_score |-> Min((IF dev THEN 35 ELSE 0) + (IF pay THEN 25 ELSE 0)
                            + (IF ips THEN 20 ELSE 0), 100),
         suspicious_patterns |->
             (IF dev THEN <<Pattern("SHARED_DEVICES_RING", Cardinality(shared_devices))>>
              ELSE <<>>)
             \o (IF pay THEN <<Pattern("SHARED_PAYMENTS",
                                       Cardinality(shared_payment_methods))>>
                 ELSE <<>>)
             \o (IF ips THEN <<Pattern("SHARED_IPS", Cardinality(shared_ips))>> ELSE <<>>),
         related_users |-> users_in_network]

\* What both detectors return for a user_id that is not a node
UnknownRing == [risk_score |-> 0, suspicious_patterns |-> <<>>, related_users |-> {}]
UnknownMule == [risk_score |-> 0, suspicious_patterns |-> <<>>]

\* EntityGraph.detect_fraud_ring
detect_fraud_ring(g, user_id, depth) ==
    IF user_id \notin DOMAIN g.nodes THEN UnknownRing
    ELSE FraudRingResult(g, _bfs_neighbors(g, user_id, depth))

\* The result of detect_mule_network once the traversal has returned connected
MuleResult(g, user_id, threshold_connections, connected) ==
    LET device_count == Cardinality(OfType(g, connected, "DEVICE"))
        payment_method_count == Cardinality(OfType(g, connected, "PAYMENT_METHOD"))
        shared_devices == _find_shared_devices(g, user_id)
        dev == device_count > threshold_connections
        pay == payment_method_count > 3
        shr == shared_devices # {}
    IN  [risk_score |-> Min((IF dev THEN 30 ELSE 0) + (IF pay THEN 20 ELSE 0)
                            + (IF shr THEN 25 ELSE 0), 100),
         suspicious_patterns |->
             (IF dev THEN <<Pattern("HIGH_DEVICE_COUNT", device_count)>> ELSE <<>>)
             \o (IF pay THEN <<Pattern("MULTIPLE_PAYMENT_METHODS", payment_method_count)>>
                 ELSE <<>>)
             \o (IF shr THEN <<Pattern("SHARED_DEVICES", Cardinality(shared_devices))>>
                 ELSE <<>>)]

\* The depth detect_mule_network passes to _bfs_neighbors
MuleDepth == 2
\* The default depth of detect_fraud_ring
RingDepth == 3
\* The default threshold_connections of detect_mule_network
ThresholdConnections == 5

\* EntityGraph.detect_mule_network
detect_mule_network(g, user_id, threshold_connections) ==
    IF user_id \notin DOMAIN g.nodes THEN UnknownMule
    ELSE MuleResult(g, user_id, threshold_connections,
                    _bfs_neighbors(g, user_id, MuleDepth))

\* A factor of get_risk_factors: min(count / per, 1.0), in thousandths
Factor(count, per) == Min((count * 1000) \div per, 1000)

\* Indexes of the edges out of entity_id
EdgesFrom(g, entity_id) == {i \in 1..Len(g.edges) : g.edges[i].source_id = entity_id}

\* The factors of a node of the graph
KnownFactors(g, entity_id) ==
    LET connection == [connection_count |-> Factor(Cardinality(EdgesFrom(g, entity_id)), 10)]
        entity_type == g.nodes[entity_id].entity_type
    IN  IF entity_type = "DEVICE"
        THEN DictPut(connection, "shared_by_users",
                     Factor(Cardinality(OwnsEdgesTo(g, entity_id)), 5))
        ELSE IF entity_type = "IP_ADDRESS"
        THEN DictPut(connection, "account_creation_velocity",
                     Factor(Cardinality({i \in EdgesFrom(g, entity_id) :
                                            g.edges[i].relation_type = "LINKED_TO"}), 20))
        ELSE connection

\* get_risk_factors without its guard on unknown ids
get_risk_factors_unguarded(g, entity_id) ==
    IF entity_id \in DOMAIN g.nodes THEN KnownFactors(g, entity_id)
    ELSE [connection_count |-> Factor(Cardinality(EdgesFrom(g, entity_id)), 10)]

\* EntityGraph.get_risk_factors
get_risk_factors(g, entity_id) ==
    IF entity_id \notin DOMAIN g.nodes THEN EmptyDict
    ELSE KnownFactors(g, entity_id)

\* EntityGraph.find_related_transactions: the tuples of the edges that have
\* user_id at an end and a relation type the filter lets through
find_related_transactions(g, user_id, relation_types) ==
    LET Involves(edge) ==
            /\ edge.source_id = user_id \/ edge.target_id = user_id
            /\ relation_types.is_none \/ edge.relation_type \in relation_types.d
        involved == SelectSeq(g.edges, Involves)
    IN  [i \in 1..Len(involved) |->
            <<involved[i].source_id, involved[i].target_id, involved[i].relation_type,
              involved[i].transaction_count>>]

(***************************************************************************)
(* AML rules (src/src/rules/aml_rules.py).  Entity names are character     *)
(* strings, so that lower() and the substring test are computed.           *)
(***************************************************************************)
\* str.lower() on one character
LowerChar(c) ==
    IF \E i \in 1..Len(UpperOf) : UpperOf[i] = c
    THEN Lower[CHOOSE i \in 1..Len(UpperOf) : UpperOf[i] = c]
    ELSE c

\* str.lower()
StrLower(s) == [i \in 1..Len(s) |-> LowerChar(s[i])]

\* str.upper()
StrUpper(s) == [i \in 1..Len(s) |-> UpperChar(s[i])]

\* sub in s
Contains(s, sub) ==
    \E i \in 0..(Len(s) - Len(sub)) : SubSeq(s, i + 1, i + Len(sub)) = sub

\* AMLRulesEngine.sanctions_lists, in the insertion order the dict iterates in;
\* a list type is its SanctionsListType value
sanctions_lists ==
    LET NorthKoreaEntity1 == <<"N","o","r","t","h"," ","K","o","r","e","a"," ","E","n",
            "t","i","t","y"," ","1">>
        IranBankX == <<"I","r","a","n"," ","B","a","n","k"," ","X">>
        UNSanctionedIndividual == <<"U","N"," ","S","a","n","c","t","i","o","n","e","d",
            " ","I","n","d","i","v","i","d","u","a","l">>
        EUListedPerson == <<"E","U"," ","L","i","s","t","e","d"," ","P","e","r","s","o",
            "n">>
    IN  << [list_type |-> <<"o","f","a","c">>, entities |-> <<NorthKoreaEntity1, IranBankX>>],
           [list_type |-> <<"u","n">>, entities |-> <<UNSanctionedIndividual>>],
           [list_type |-> <<"e","u">>, entities |-> <<EUListedPerson>>] >>

\* AMLRulesEngine.pep_database, in the insertion order the dict iterates in;
\* a level is the name of its PEPLevel member
pep_database ==
    LET VladimirPutin == <<"V","l","a","d","i","m","i","r"," ","P","u","t","i","n">>
        XiJinping == <<"X","i"," ","J","i","n","p","i","n","g">>
        PutinFamilyMember == <<"P","u","t","i","n"," ","F","a","m","i","l","y"," ","M",
            "e","m","b","e","r">>
    IN  << [pep_name |-> VladimirPutin, pep_level |-> "DIRECT"],
           [pep_name |-> XiJinping, pep_level |-> "DIRECT"],
           [pep_name |-> PutinFamilyMember, pep_level |-> "FAMILY"] >>

\* The (list_type, sanctioned_entity) pairs in the order the two loops visit them
RECURSIVE SanctionsPairs(_)
SanctionsPairs(lists) ==
    IF lists = <<>> THEN <<>>
    ELSE [i \in 1..Len(Head(lists).entities) |->
             <<Head(lists).list_type, Head(lists).entities[i]>>]
         \o SanctionsPairs(Tail(lists))

\* The body of the inner loop of screen_sanctions: a match appends a
\* SanctionsHit and the code f"SANCTIONS_{list_type.value.upper()}_HIT"
SanctionsStep(acc, pair, entity_name) ==
    IF Contains(StrLower(entity_name), StrLower(pair[2]))
    THEN [risk_score |-> Max(acc.risk_score, 950),
          reason_codes |-> Append(acc.reason_codes, <<"SANCTIONS", StrUpper(pair[1]), "HIT">>),
          hits |-> Append(acc.hits,
                          [hit |-> TRUE, list_type |-> pair[1], match_strength |-> 950,
                           entity_name |-> entity_name, reason |-> <<"Match: ", pair[2]>>])]
    ELSE acc

RECURSIVE SanctionsLoop(_, _, _)
SanctionsLoop(acc, pairs, entity_name) ==
    IF pairs = <<>> THEN acc
    ELSE SanctionsLoop(SanctionsStep(acc, Head(pairs), entity_name), Tail(pairs), entity_name)

\* The country screen with the two sources added up
CountryScreenSum(acc, entity_country) ==
    IF entity_country \in {"KP", "IR", "SY"}
    THEN [acc EXCEPT !.risk_score = @ + 850,
                     !.reason_codes = Append(@, <<"HIGH_RISK_COUNTRY", entity_country>>)]
    ELSE acc

\* The country-based screening of screen_sanctions
CountryScreen(acc, entity_country) ==
    IF entity_country \in {"KP", "IR", "SY"}
    THEN [acc EXCEPT !.risk_score = Max(@, 850),
                     !.reason_codes = Append(@, <<"HIGH_RISK_COUNTRY", entity_country>>)]
    ELSE acc

\* AMLRulesEngine.screen_sanctions
screen_sanctions(entity_name, entity_country) ==
    CountryScreen(SanctionsLoop([risk_score |-> 0, reason_codes |-> <<>>, hits |-> <<>>],
                                SanctionsPairs(sanctions_lists), entity_name),
                  entity_country)

\* The score of a match when the highest level seen so far is kept
PepScoreMax(risk_score, pep_level) ==
    IF pep_level = "DIRECT" THEN Max(risk_score, 950)
    ELSE IF pep_level = "FAMILY" THEN Max(risk_score, 700)
    ELSE IF pep_level = "CLOSE_ASSOCIATE" THEN Max(risk_score, 500)
    ELSE risk_score

\* The if / elif chain of screen_pep: the score it assigns
PepScore(risk_score, pep_level) ==
    IF pep_level = "DIRECT" THEN 950
    ELSE IF pep_level = "FAMILY" THEN 700
    ELSE IF pep_level = "CLOSE_ASSOCIATE" THEN 500
    ELSE risk_score

\* The if / elif chain of screen_pep: the code it appends
PepCode(reason_codes, pep_level) ==
    IF pep_level = "DIRECT" THEN Append(reason_codes, "PEP_DIRECT")
    ELSE IF pep_level = "FAMILY" THEN Append(reason_codes, "PEP_FAMILY")
    ELSE IF pep_level = "CLOSE_ASSOCIATE" THEN Append(reason_codes, "PEP_CLOSE_ASSOCIATE")
    ELSE reason_codes

\* The body of the loop of screen_pep: a match appends a PEPMatch
PepStep(acc, entry, entity_name) ==
    IF Contains(StrLower(entity_name), StrLower(entry.pep_name))
    THEN [risk_score |-> PepScore(acc.risk_score, entry.pep_level),
          reason_codes |-> PepCode(acc.reason_codes, entry.pep_level),
          matches |-> Append(acc.matches,
                             [is_pep |-> TRUE, pep_level |-> entry.pep_level,
                              entity_name |-> entity_name, match_strength |-> 950])]
    ELSE acc

RECURSIVE PepLoop(_, _, _)
PepLoop(acc, entries, entity_name) ==
    IF entries = <<>> THEN acc
    ELSE PepLoop(PepStep(acc, Head(entries), entity_name), Tail(entries), entity_name)

\* AMLRulesEngine.screen_pep
screen_pep(entity_name) ==
    PepLoop([risk_score |-> 0, reason_codes |-> <<>>, matches |-> <<>>],
            pep_database, entity_name)

\* The structuring test with the two ends of the band included
IsStructuringInclusive(transactions_24h, amount_24h) ==
    LET n == Max(transactions_24h, 1)
    IN  9000 * n <= amount_24h /\ amount_24h <= 9900 * n

\* 9000 < amount_24h / max(transactions_24h, 1) < 9900, on exact quotients
IsStructuring(transactions_24h, amount_24h) ==
    LET n == Max(transactions_24h, 1)
    IN  9000 * n < amount_24h /\ amount_24h < 9900 * n

\* AMLRulesEngine.check_velocity_abuse.  A code is the tuple of its parts.
check_velocity_abuse(user_id, transactions_24h, amount_24h) ==
    LET velocity == transactions_24h > 50
        rapid == amount_24h > 100000
        structuring == IsStructuring(transactions_24h, amount_24h)
    IN  [risk_score |-> Min((IF velocity THEN 250 ELSE 0) + (IF rapid THEN 150 ELSE 0)
                            + (IF structuring THEN 400 ELSE 0), 1000),
         reason_codes |->
             (IF velocity THEN <<Pattern("HIGH_TRANSACTION_VELOCITY", transactions_24h)>>
              ELSE <<>>)
             \o (IF rapid THEN <<Pattern("RAPID_FUND_MOVEMENT", amount_24h)>> ELSE <<>>)
             \o (IF structuring THEN << <<"STRUCTURING_PATTERN_DETECTED">> >> ELSE <<>>)]

\* AMLRulesEngine.generate_str
generate_str(transaction_id, user_id, risk_indicators, risk_score) ==
    [report_type |-> "STR", transaction_id |-> transaction_id, user_id |-> user_id,
     risk_score |-> risk_score, indicators |-> risk_indicators,
     filing_required |-> risk_score > 700, jurisdiction |-> "US"]

(***************************************************************************)
(* STRFilingQueue.  A report is a dict; the queue is the pair of its lists. *)
(***************************************************************************)
\* The decimal digits of n
RECURSIVE Digits(_)
Digits(n) ==
    LET DigitChars == <<"0","1","2","3","4","5","6","7","8","9">>
    IN  IF n < 10 THEN <<DigitChars[n + 1]>>
        ELSE Append(Digits(n \div 10), DigitChars[(n % 10) + 1])

\* Zero padding on the left up to width, as the format 06d pads
ZeroPad(s, width) ==
    IF Len(s) >= width THEN s
    ELSE [i \in 1..width |-> IF i <= width - Len(s) THEN "0" ELSE s[i - (width - Len(s))]]

\* f"str_{n:06d}"
ReportId(n) == <<"s","t","r","_">> \o ZeroPad(Digits(n), 6)

Queue(pending, filed) == [pending_strs |-> pending, filed_strs |-> filed]

\* STRFilingQueue.enqueue_str: the queue after the call, and the returned id
enqueue_str(q, str_report) ==
    LET report_id == ReportId(Len(q.pending_strs))
        report == DictPut(DictPut(str_report, "report_id", report_id), "status", "PENDING")
    IN  [queue |-> Queue(Append(q.pending_strs, report), q.filed_strs), ret |-> report_id]

\* The indexes of the pending reports whose report_id is the one asked for
MatchingReports(pending, report_id) ==
    {i \in 1..Len(pending) : DictGet(pending[i], "report_id", <<>>) = report_id}

\* The last pending report with the id
LastMatch(pending, report_id) ==
    CHOOSE i \in MatchingReports(pending, report_id) :
        \A j \in MatchingReports(pending, report_id) : j <= i

\* The report the loop of file_str stops at: the first one with the id
FirstMatch(pending, report_id) ==
    CHOOSE i \in MatchingReports(pending, report_id) :
        \A j \in MatchingReports(pending, report_id) : i <= j

\* file_str that marks and appends the report but leaves it in pending_strs
file_str_keep_pending(q, report_id) ==
    IF MatchingReports(q.pending_strs, report_id) = {}
    THEN [queue |-> q, ret |-> FALSE]
    ELSE LET i == FirstMatch(q.pending_strs, report_id)
             report == DictPut(q.pending_strs[i], "status", "FILED")
         IN  [queue |-> Queue([q.pending_strs EXCEPT ![i] = report],
                              Append(q.filed_strs, report)),
              ret |-> TRUE]

\* STRFilingQueue.file_str: the queue after the call, and the returned flag
file_str(q, report_id) ==
    IF MatchingReports(q.pending_strs, report_id) = {}
    THEN [queue |-> q, ret |-> FALSE]
    ELSE LET i == FirstMatch(q.pending_strs, report_id)
             report == DictPut(q.pending_strs[i], "status", "FILED")
             popped == SubSeq(q.pending_strs, 1, i - 1)
                       \o SubSeq(q.pending_strs, i + 1, Len(q.pending_strs))
         IN  [queue |-> Queue(popped, Append(q.filed_strs, report)), ret |-> TRUE]

(***************************************************************************)
(* MetricsCollector (src/src/monitoring/metrics.py)                        *)
(***************************************************************************)
\* buckets[key][decision] += 1 on a defaultdict: reading buckets[key] inserts the
\* default; a decision that is no key of the bucket raises KeyError after that
BucketAdd(buckets, key, decision) ==
    LET present == IF key \in DOMAIN buckets THEN buckets
                   ELSE DictPut(buckets, key, [allow |-> 0, block |-> 0])
    IN  IF decision \in DOMAIN present[key]
        THEN [raised |-> FALSE,
              buckets |-> DictPut(present, key,
                                  DictPut(present[key], decision, present[key][decision] + 1))]
        ELSE [raised |-> TRUE, buckets |-> present]

\* The Metric record_decision stores, its context being
\* {"model_version": model_version, **context} (the timestamp is left out)
Metric(decision, model_version, context) ==
    [metric_type |-> "AUTHORIZATION_RATE",
     value |-> IF decision = "allow" THEN 1000 ELSE 0,
     context |-> [k \in {"model_version"} \cup DOMAIN context |->
                     IF k \in DOMAIN context THEN context[k] ELSE model_version]]

(***************************************************************************)
(* LatencyBucket.  Samples are whole milliseconds; a percentile is in      *)
(* halves of a millisecond, so that the mean statistics.median takes of    *)
(* the two middle samples is exact.                                        *)
(***************************************************************************)
\* sorted(self.latencies): ascending
RECURSIVE sorted(_)
sorted(samples) ==
    IF samples = <<>> THEN <<>>
    ELSE LET rest == sorted(Tail(samples))
             below == Cardinality({i \in 1..Len(rest) : rest[i] < Head(samples)})
         IN  SubSeq(rest, 1, below) \o <<Head(samples)>>
                 \o SubSeq(rest, below + 1, Len(rest))

\* LatencyBucket.p50: statistics.median, the middle sample of an odd number
\* of samples and the mean of the two middle samples of an even number
p50(samples) ==
    LET data == sorted(samples)
        n == Len(data)
    IN  IF n = 0 THEN 0
        ELSE IF n % 2 = 1 THEN 2 * data[(n \div 2) + 1]
        ELSE data[n \div 2] + data[(n \div 2) + 1]

\* Mutant of p95: the smallest sample
p95_lowest(samples) ==
    IF samples = <<>> THEN 0 ELSE 2 * sorted(samples)[1]

\* LatencyBucket.p95: sorted_lat[min(int(len * 0.95), len - 1)]; the float
\* product truncates to floor(95 * len / 100) for every len up to 2000
p95(samples) ==
    LET sorted_lat == sorted(samples)
        idx == (Len(sorted_lat) * 95) \div 100
    IN  IF samples = <<>> THEN 0
        ELSE 2 * sorted_lat[Min(idx, Len(sorted_lat) - 1) + 1]

\* LatencyBucket.p99: sorted_lat[min(int(len * 0.99), len - 1)]
p99(samples) ==
    LET sorted_lat == sorted(samples)
        idx == (Len(sorted_lat) * 99) \div 100
    IN  IF samples = <<>> THEN 0
        ELSE 2 * sorted_lat[Min(idx, Len(sorted_lat) - 1) + 1]

\* MetricsCollector.get_latency_metrics
get_latency_metrics(bucket) ==
    [p50_ms |-> p50(bucket), p95_ms |-> p95(bucket), p99_ms |-> p99(bucket)]

(***************************************************************************)
(* The engine as a state machine                                           *)
(***************************************************************************)
\* RiskDecisionEngine.__init__
EngineInit ==
    /\ config \in Configs
    /\ high_risk_threshold = DictGet(config, "high_risk_threshold", 800)
    /\ low_risk_threshold = DictGet(config, "low_risk_threshold", 300)
    /\ engine_pc = "ready"
    /\ call = <<>>
    /\ run = <<>>
    /\ prev = <<>>

\* One call of score_transaction.  A producer's output is an input only when
\* no fault is injected; with a fault the stubs stand in for the unread outputs.
\* The caller of a fresh call holds no earlier result.
ScoreTransaction ==
    \E transaction \in Transactions, context \in Contexts, fault \in Faults,
       ml \in MlOutputs, rules \in RulesOutputs, aml \in AmlOutputs, graph \in GraphOutputs :
        /\ engine_pc = "ready"
        /\ fault # "none" =>
               /\ ml = MlStub /\ rules = RulesStub /\ aml = AmlStub /\ graph = GraphStub
               /\ ~transaction.is_none
        /\ call' = [transaction |-> transaction, context |-> context, fault |-> fault,
                    ml |-> ml, rules |-> rules, aml |-> aml, graph |-> graph]
        /\ run' = score_transaction(config, high_risk_threshold, low_risk_threshold,
                                    transaction, context, fault, ml, rules, aml, graph)
        /\ engine_pc' = "returned"
        /\ prev' = <<>>
        /\ UNCHANGED <<config, high_risk_threshold, low_risk_threshold>>
        /\ UNCHANGED <<graph_vars, detect_vars, aml_vars, str_vars, metrics_vars, writer, threads>>

\* The caller takes the returned RiskDecision; the engine is ready for the next call
TakeDecision ==
    /\ engine_pc = "returned"
    /\ engine_pc' = "ready"
    /\ call' = <<>>
    /\ run' = <<>>
    /\ prev' = <<>>
    /\ UNCHANGED <<config, high_risk_threshold, low_risk_threshold>>
    /\ UNCHANGED <<graph_vars, detect_vars, aml_vars, str_vars, metrics_vars, writer, threads>>

\* Mutant of ScoreAgain: the first call has left a lowered block threshold
\* behind, and the second call reads it
ScoreAgainDrifting ==
    /\ engine_pc = "returned"
    /\ DOMAIN prev = {}
    /\ prev' = [call |-> call, run |-> run]
    /\ high_risk_threshold' = low_risk_threshold
    /\ run' = score_transaction(config, low_risk_threshold, low_risk_threshold,
                                call.transaction, call.context, call.fault,
                                call.ml, call.rules, call.aml, call.graph)
    /\ UNCHANGED <<config, low_risk_threshold, engine_pc, call>>
    /\ UNCHANGED <<graph_vars, detect_vars, aml_vars, str_vars, metrics_vars, writer, threads>>

\* The caller keeps the returned RiskDecision and calls score_transaction
\* again on the same engine with the same arguments; the producers are the
\* engine's own, so they answer as before
ScoreAgain ==
    /\ engine_pc = "returned"
    /\ DOMAIN prev = {}
    /\ prev' = [call |-> call, run |-> run]
    /\ run' = score_transaction(config, high_risk_threshold, low_risk_threshold,
                                call.transaction, call.context, call.fault,
                                call.ml, call.rules, call.aml, call.graph)
    /\ UNCHANGED <<config, high_risk_threshold, low_risk_threshold, engine_pc, call>>
    /\ UNCHANGED <<graph_vars, detect_vars, aml_vars, str_vars, metrics_vars, writer, threads>>

(***************************************************************************)
(* The entity graph as a state machine                                     *)
(***************************************************************************)
\* The EntityGraph object in the current state
G == Graph(nodes, edges, adjacency_list)

\* EntityGraph.__init__
GraphInit ==
    /\ nodes = EmptyDict
    /\ edges = <<>>
    /\ adjacency_list = EmptyDict

\* No detector call in progress
DetectIdle ==
    /\ detect_pc = "idle"
    /\ detect_call = <<>>
    /\ visited = {}
    /\ queue = <<>>
    /\ expansions = [id \in Ids |-> 0]
    /\ iterations = 0
    /\ detect_ret = <<>>

\* A call of add_entity
AddEntity(entity_id, entity_type, attributes) ==
    /\ detect_pc = "idle"
    /\ LET g == add_entity(G, entity_id, entity_type, attributes)
       IN  /\ nodes' = g.nodes
           /\ edges' = g.edges
           /\ adjacency_list' = g.adjacency_list
    /\ UNCHANGED <<engine_vars, detect_vars, aml_vars, str_vars, metrics_vars, writer, threads>>

\* A call of add_relationship with the default weight and transaction_count
AddRelationship(source_id, target_id, relation_type) ==
    /\ detect_pc = "idle"
    /\ Len(edges) < MaxEdges
    /\ LET g == add_relationship(G, source_id, target_id, relation_type, 1, 0)
       IN  /\ nodes' = g.nodes
           /\ edges' = g.edges
           /\ adjacency_list' = g.adjacency_list
    /\ UNCHANGED <<engine_vars, detect_vars, aml_vars, str_vars, metrics_vars, writer, threads>>

\* detect_fraud_ring / detect_mule_network up to the call of _bfs_neighbors:
\* an unknown user returns at once, a known one enters the traversal
DetectStart(kind, user_id, max_depth) ==
    /\ detect_pc = "idle"
    /\ detect_call' = [kind |-> kind, user_id |-> user_id, max_depth |-> max_depth]
    /\ expansions' = [id \in Ids |-> 0]
    /\ iterations' = 0
    /\ IF user_id \notin DOMAIN nodes
       THEN /\ detect_pc' = "returned"
            /\ detect_ret' = IF kind = "ring" THEN UnknownRing ELSE UnknownMule
            /\ UNCHANGED <<visited, queue>>
       ELSE /\ detect_pc' = "bfs"
            /\ visited' = {}
            /\ queue' = << <<user_id, 0>> >>
            /\ UNCHANGED detect_ret
    /\ UNCHANGED <<engine_vars, graph_vars, aml_vars, str_vars, metrics_vars, writer, threads>>

\* One pass through the while loop of _bfs_neighbors
BfsIterate ==
    /\ detect_pc = "bfs"
    /\ queue # <<>>
    /\ LET b == BfsIteration(adjacency_list, [visited |-> visited, queue |-> queue],
                             detect_call.max_depth)
       IN  /\ visited' = b.visited
           /\ queue' = b.queue
           /\ expansions' = [id \in Ids |->
                                expansions[id] + (IF id \in b.expanded THEN 1 ELSE 0)]
    /\ iterations' = iterations + 1
    /\ UNCHANGED <<detect_pc, detect_call, detect_ret>>
    /\ UNCHANGED <<engine_vars, graph_vars, aml_vars, str_vars, metrics_vars, writer, threads>>

\* The loop ends on the empty queue; the detector computes its result and returns
BfsExit ==
    /\ detect_pc = "bfs"
    /\ queue = <<>>
    /\ detect_ret' = IF detect_call.kind = "ring"
                     THEN FraudRingResult(G, visited)
                     ELSE MuleResult(G, detect_call.user_id, ThresholdConnections, visited)
    /\ detect_pc' = "returned"
    /\ UNCHANGED <<detect_call, visited, queue, expansions, iterations>>
    /\ UNCHANGED <<engine_vars, graph_vars, aml_vars, str_vars, metrics_vars, writer, threads>>

\* The caller takes the detector's result
TakeResult ==
    /\ detect_pc = "returned"
    /\ detect_pc' = "idle"
    /\ detect_call' = <<>>
    /\ visited' = {}
    /\ queue' = <<>>
    /\ expansions' = [id \in Ids |-> 0]
    /\ iterations' = 0
    /\ detect_ret' = <<>>
    /\ UNCHANGED <<engine_vars, graph_vars, aml_vars, str_vars, metrics_vars, writer, threads>>

\* add_relationship statement by statement, as a thread runs it: one step from
\* position w.pc on graph g.  Each step is one test with the store it guards,
\* or one append; the graph has no lock, so other threads run between steps.
add_relationship_step(g, w) ==
    LET ensured == IF w.pc \in {"source", "source_adjacency"} THEN w.source_id
                   ELSE w.target_id
        entity_type == IF ensured = w.source_id /\ w.pc \in {"source", "source_adjacency"}
                       THEN "USER" ELSE "DEVICE"
        after_adjacency == IF w.pc = "source_adjacency" THEN "target" ELSE "edge"
    IN  CASE w.pc \in {"source", "target"} ->
                 \* if id not in self.nodes: add_entity ... self.nodes[entity_id] = node
                 IF ensured \notin DOMAIN g.nodes
                 THEN [graph |-> Graph(DictPut(g.nodes, ensured,
                                               EntityNode(ensured, entity_type, EmptyDict)),
                                       g.edges, g.adjacency_list),
                       pc |-> IF w.pc = "source" THEN "source_adjacency"
                              ELSE "target_adjacency"]
                 ELSE [graph |-> g, pc |-> IF w.pc = "source" THEN "target" ELSE "edge"]
          [] w.pc \in {"source_adjacency", "target_adjacency"} ->
                 \* add_entity: if entity_id not in self.adjacency_list: ... = []
                 [graph |-> Graph(g.nodes, g.edges,
                                  IF ensured \notin DOMAIN g.adjacency_list
                                  THEN DictPut(g.adjacency_list, ensured, <<>>)
                                  ELSE g.adjacency_list),
                  pc |-> after_adjacency]
          [] w.pc = "edge" ->
                 \* self.edges.append(EntityEdge(...))
                 [graph |-> Graph(g.nodes,
                                  Append(g.edges,
                                         EntityEdge(w.source_id, w.target_id,
                                                    w.relation_type, 1, 0)),
                                  g.adjacency_list),
                  pc |-> "adjacency"]
          [] w.pc = "adjacency" ->
                 \* self.adjacency_list[source_id].append(target_id)
                 [graph |-> Graph(g.nodes, g.edges,
                                  [g.adjacency_list EXCEPT
                                       ![w.source_id] = Append(@, w.target_id)]),
                  pc |-> "idle"]

\* A thread enters add_relationship
AddRelationshipEnter(source_id, target_id, relation_type) ==
    /\ writer.pc = "idle"
    /\ Len(edges) < MaxEdges
    /\ writer' = [pc |-> "source", source_id |-> source_id, target_id |-> target_id,
                  relation_type |-> relation_type]
    /\ UNCHANGED <<engine_vars, graph_vars, detect_vars, aml_vars, str_vars, metrics_vars,
                   threads>>

\* The thread inside add_relationship runs its next statement
AddRelationshipStep ==
    /\ writer.pc # "idle"
    /\ LET step == add_relationship_step(G, writer)
       IN  /\ nodes' = step.graph.nodes
           /\ edges' = step.graph.edges
           /\ adjacency_list' = step.graph.adjacency_list
           /\ writer' = IF step.pc = "idle" THEN [pc |-> "idle"]
                        ELSE [writer EXCEPT !.pc = step.pc]
    /\ UNCHANGED <<engine_vars, detect_vars, aml_vars, str_vars, metrics_vars, threads>>

\* The most edges of a graph the traversal is called on directly
MaxPathEdges == 3

\* A call of add_relationship on a graph that is built for the traversal only:
\* _bfs_neighbors reads adjacency_list alone, so the relation is left at OWNS
AddLink(source_id, target_id) ==
    /\ detect_pc = "idle"
    /\ Len(edges) < MaxPathEdges
    /\ LET g == add_relationship(G, source_id, target_id, "OWNS", 1, 0)
       IN  /\ nodes' = g.nodes
           /\ edges' = g.edges
           /\ adjacency_list' = g.adjacency_list
    /\ UNCHANGED <<engine_vars, detect_vars, aml_vars, str_vars, metrics_vars, writer, threads>>

\* _bfs_neighbors called as one call, from any id and to any depth
BfsNeighbors(start_id, max_depth) ==
    /\ detect_pc = "idle"
    /\ detect_call' = [kind |-> "bfs_neighbors", start_id |-> start_id,
                       max_depth |-> max_depth]
    /\ detect_ret' = _bfs_neighbors(G, start_id, max_depth)
    /\ detect_pc' = "returned"
    /\ UNCHANGED <<visited, queue, expansions, iterations>>
    /\ UNCHANGED <<engine_vars, graph_vars, aml_vars, str_vars, metrics_vars, writer, threads>>

\* The depths the callers of detect_fraud_ring pass
RingDepths == {1, RingDepth}

\* get_risk_factors as one call: it reads nodes and edges and returns
GetRiskFactors(entity_id) ==
    /\ detect_pc = "idle"
    /\ detect_call' = [kind |-> "risk_factors", entity_id |-> entity_id]
    /\ detect_ret' = get_risk_factors(G, entity_id)
    /\ detect_pc' = "returned"
    /\ UNCHANGED <<visited, queue, expansions, iterations>>
    /\ UNCHANGED <<engine_vars, graph_vars, aml_vars, str_vars, metrics_vars, writer, threads>>

\* find_related_transactions as one call: it reads edges and returns
FindRelatedTransactions(user_id, relation_types) ==
    /\ detect_pc = "idle"
    /\ detect_call' = [kind |-> "related", user_id |-> user_id,
                       relation_types |-> relation_types]
    /\ detect_ret' = find_related_transactions(G, user_id, relation_types)
    /\ detect_pc' = "returned"
    /\ UNCHANGED <<visited, queue, expansions, iterations>>
    /\ UNCHANGED <<engine_vars, graph_vars, aml_vars, str_vars, metrics_vars, writer, threads>>

(***************************************************************************)
(* The AML rules engine, the STR queue and the metrics collector as state  *)
(* machines                                                                *)
(***************************************************************************)
\* No AMLRulesEngine call made yet
AmlIdle ==
    /\ aml_call = [method |-> "none"]
    /\ aml_ret = <<>>

ScreenSanctions(entity_name, entity_country) ==
    /\ aml_call' = [method |-> "screen_sanctions", entity_name |-> entity_name,
                    entity_country |-> entity_country]
    /\ aml_ret' = screen_sanctions(entity_name, entity_country)
    /\ UNCHANGED <<engine_vars, graph_vars, detect_vars, str_vars, metrics_vars, writer, threads>>

ScreenPep(entity_name) ==
    /\ aml_call' = [method |-> "screen_pep", entity_name |-> entity_name]
    /\ aml_ret' = screen_pep(entity_name)
    /\ UNCHANGED <<engine_vars, graph_vars, detect_vars, str_vars, metrics_vars, writer, threads>>

CheckVelocityAbuse(user_id, transactions_24h, amount_24h) ==
    /\ aml_call' = [method |-> "check_velocity_abuse", user_id |-> user_id,
                    transactions_24h |-> transactions_24h, amount_24h |-> amount_24h]
    /\ aml_ret' = check_velocity_abuse(user_id, transactions_24h, amount_24h)
    /\ UNCHANGED <<engine_vars, graph_vars, detect_vars, str_vars, metrics_vars, writer, threads>>

\* The entity names screen_sanctions is called with
SanctionsNames ==
    LET JohnSmith == <<"J","o","h","n"," ","S","m","i","t","h">>
        NorthKoreaUpper == <<"N","O","R","T","H"," ","K","O","R","E","A"," ","E","N",
            "T","I","T","Y"," ","1">>
        NorthKoreaShort == <<"N","o","r","t","h"," ","K","o","r","e","a"," ","E","n",
            "t","i","t","y">>
        IranAndNorthKorea == <<"x","I","r","a","n"," ","B","a","n","k"," ","X"," ","a",
            "n","d"," ","n","o","r","t","h"," ","k","o","r","e","a"," ","e","n","t","i",
            "t","y"," ","1">>
        EuAndUn == <<"E","U"," ","L","i","s","t","e","d"," ","P","e","r","s","o","n",
            " ","U","N"," ","S","a","n","c","t","i","o","n","e","d"," ","I","n","d","i",
            "v","i","d","u","a","l">>
    IN  {<<>>, JohnSmith, sanctions_lists[1].entities[1], NorthKoreaUpper, NorthKoreaShort,
         IranAndNorthKorea, sanctions_lists[2].entities[1], EuAndUn}

\* The entity names screen_pep is called with
PepNames ==
    LET JohnSmith == <<"J","o","h","n"," ","S","m","i","t","h">>
        PutinBoth == <<"V","l","a","d","i","m","i","r"," ","P","u","t","i","n"," ","F",
            "a","m","i","l","y"," ","M","e","m","b","e","r">>
        PutinFamilyLower == <<"p","u","t","i","n"," ","f","a","m","i","l","y"," ","m",
            "e","m","b","e","r">>
        XiAndPutin == <<"X","i"," ","J","i","n","p","i","n","g"," ","a","n","d"," ","V",
            "l","a","d","i","m","i","r"," ","P","u","t","i","n">>
    IN  {<<>>, JohnSmith, PutinBoth, PutinFamilyLower, XiAndPutin}
        \cup {pep_database[i].pep_name : i \in 1..Len(pep_database)}

\* Transaction counts and amounts around the three tests of check_velocity_abuse
VelocityCounts == {0, 1, 2, 12, 50, 51, 60}
VelocityAmounts ==
    {0, 8999, 9000, 9001, 9500, 9899, 9900, 18000, 18001, 19799, 19800,
     100000, 100001, 110000, 459001, 484500, 504899, 570000}

\* STRFilingQueue.__init__
StrInit ==
    /\ pending_strs = <<>>
    /\ filed_strs = <<>>
    /\ enqueue_calls = 0
    /\ str_call = [method |-> "none"]
    /\ str_ret = <<>>

\* The most enqueue_str calls of a run of the model
MaxReports == 4

\* A call of enqueue_str
EnqueueStr(str_report) ==
    /\ enqueue_calls < MaxReports
    /\ LET r == enqueue_str(Queue(pending_strs, filed_strs), str_report)
       IN  /\ pending_strs' = r.queue.pending_strs
           /\ filed_strs' = r.queue.filed_strs
           /\ str_ret' = r.ret
    /\ enqueue_calls' = enqueue_calls + 1
    /\ str_call' = [method |-> "enqueue_str", str_report |-> str_report]
    /\ UNCHANGED <<engine_vars, graph_vars, detect_vars, aml_vars, metrics_vars, writer, threads>>

\* A call of file_str
FileStr(report_id) ==
    /\ LET r == file_str(Queue(pending_strs, filed_strs), report_id)
       IN  /\ pending_strs' = r.queue.pending_strs
           /\ filed_strs' = r.queue.filed_strs
           /\ str_ret' = r.ret
    /\ str_call' = [method |-> "file_str", report_id |-> report_id]
    /\ UNCHANGED enqueue_calls
    /\ UNCHANGED <<engine_vars, graph_vars, detect_vars, aml_vars, metrics_vars, writer, threads>>

\* A report nobody has enqueued before: the STR of the next transaction
FreshReport(risk_score) ==
    generate_str(<<"txn", enqueue_calls + 1>>, "usr_1", <<>>, risk_score)

\* MetricsCollector.__init__
MetricsInit ==
    /\ total_decisions = 0
    /\ allowed_count = 0
    /\ blocked_count = 0
    /\ review_count = 0
    /\ latencies = <<>>
    /\ metrics = <<>>
    /\ decisions_by_country = EmptyDict
    /\ decisions_by_demographic = EmptyDict
    /\ record_call = [decision |-> "none"]
    /\ record_ret = "none"
    /\ true_positives = 0
    /\ false_positives = 0
    /\ false_negatives = 0
    /\ true_negatives = 0
    /\ latency_ret = EmptyDict

\* The most record_decision calls of a run of the model
MaxDecisions == 3

\* A call of record_decision, up to its return or to the exception it raises
RecordDecision(decision, risk_score, latency_ms, model_version, context) ==
    LET ctx == IF context.is_none THEN EmptyDict ELSE context.d
        country == IF "country" \in DOMAIN ctx
                   THEN BucketAdd(decisions_by_country, ctx["country"], decision)
                   ELSE [raised |-> FALSE, buckets |-> decisions_by_country]
        demographic == IF ~country.raised /\ "demographic_segment" \in DOMAIN ctx
                       THEN BucketAdd(decisions_by_demographic,
                                      ctx["demographic_segment"], decision)
                       ELSE [raised |-> FALSE, buckets |-> decisions_by_demographic]
    IN  /\ total_decisions < MaxDecisions
        /\ record_call' = [decision |-> decision, latency_ms |-> latency_ms,
                           context |-> context]
        /\ total_decisions' = total_decisions + 1
        /\ allowed_count' = allowed_count + (IF decision = "allow" THEN 1 ELSE 0)
        /\ blocked_count' = blocked_count + (IF decision = "block" THEN 1 ELSE 0)
        /\ review_count' = review_count + (IF decision = "review" THEN 1 ELSE 0)
        /\ latencies' = Append(latencies, latency_ms)
        /\ metrics' = Append(metrics, Metric(decision, model_version, ctx))
        /\ decisions_by_country' = country.buckets
        /\ decisions_by_demographic' = demographic.buckets
        /\ record_ret' = IF country.raised \/ demographic.raised THEN "KeyError"
                         ELSE "returned"
        /\ latency_ret' = EmptyDict
        /\ UNCHANGED <<true_positives, false_positives, false_negatives, true_negatives>>
        /\ UNCHANGED <<engine_vars, graph_vars, detect_vars, aml_vars, str_vars,
                       writer, threads>>

\* A call of get_latency_metrics on the collector
GetLatencyMetrics ==
    /\ latency_ret' = get_latency_metrics(latencies)
    /\ record_call' = [decision |-> "none"]
    /\ record_ret' = "none"
    /\ UNCHANGED <<total_decisions, allowed_count, blocked_count, review_count,
                   latencies, metrics, decisions_by_country, decisions_by_demographic,
                   true_positives, false_positives, false_negatives, true_negatives>>
    /\ UNCHANGED <<engine_vars, graph_vars, detect_vars, aml_vars, str_vars,
                   writer, threads>>

\* A thread enters record_decision (no context) or record_fraud_feedback
ThreadCall(t, method_call) ==
    /\ t \notin DOMAIN threads
    /\ threads' = DictPut(threads, t,
                          [call |-> method_call, loaded |-> 0,
                           pc |-> IF method_call.method = "record_decision"
                                  THEN "load_total" ELSE "load_counter"])
    /\ UNCHANGED <<engine_vars, graph_vars, detect_vars, aml_vars, str_vars, metrics_vars,
                   writer>>

\* The thread runs its next step.  `self.x += 1` is a load of self.x, an add
\* and a store of self.x; the collector has no lock, so other threads run
\* between the load and the store.  list.append is one step.
ThreadStep(t) ==
    /\ t \in DOMAIN threads
    /\ threads[t].pc # "done"
    /\ LET th == threads[t]
           decision == th.call.decision
           \* the counter the call increments after total_decisions
           \* (record_decision) or as its only update (record_fraud_feedback)
           counter_of_call ==
               IF th.call.method = "record_decision"
               THEN CASE decision = "allow" -> "allowed_count"
                      [] decision = "block" -> "blocked_count"
                      [] decision = "review" -> "review_count"
               ELSE CASE decision = "block" /\ th.call.actual_fraud -> "true_positives"
                      [] decision = "block" /\ ~th.call.actual_fraud -> "false_positives"
                      [] decision = "allow" /\ th.call.actual_fraud -> "false_negatives"
                      [] decision = "allow" /\ ~th.call.actual_fraud -> "true_negatives"
           name == IF th.pc \in {"load_total", "store_total"} THEN "total_decisions"
                   ELSE counter_of_call
           value == CASE name = "total_decisions" -> total_decisions
                      [] name = "allowed_count" -> allowed_count
                      [] name = "blocked_count" -> blocked_count
                      [] name = "review_count" -> review_count
                      [] name = "true_positives" -> true_positives
                      [] name = "false_positives" -> false_positives
                      [] name = "false_negatives" -> false_negatives
                      [] name = "true_negatives" -> true_negatives
           Stored(counter, current) ==
               IF th.pc \in {"store_total", "store_counter"} /\ name = counter
               THEN th.loaded + 1 ELSE current
           next_pc == CASE th.pc = "load_total" -> "store_total"
                        [] th.pc = "store_total" -> "load_counter"
                        [] th.pc = "load_counter" -> "store_counter"
                        [] th.pc = "store_counter" ->
                               IF th.call.method = "record_decision" THEN "latency"
                               ELSE "done"
                        [] th.pc = "latency" -> "metric"
                        [] th.pc = "metric" -> "done"
       IN  /\ total_decisions' = Stored("total_decisions", total_decisions)
           /\ allowed_count' = Stored("allowed_count", allowed_count)
           /\ blocked_count' = Stored("blocked_count", blocked_count)
           /\ review_count' = Stored("review_count", review_count)
           /\ true_positives' = Stored("true_positives", true_positives)
           /\ false_positives' = Stored("false_positives", false_positives)
           /\ false_negatives' = Stored("false_negatives", false_negatives)
           /\ true_negatives' = Stored("true_negatives", true_negatives)
           /\ latencies' = IF th.pc = "latency" THEN Append(latencies, th.call.latency_ms)
                           ELSE latencies
           /\ metrics' = IF th.pc = "metric"
                         THEN Append(metrics, Metric(th.call.decision, "v1.0.0", EmptyDict))
                         ELSE metrics
           /\ threads' = [threads EXCEPT ![t] =
                              [call |-> th.call, pc |-> next_pc,
                               loaded |-> IF th.pc \in {"load_total", "load_counter"}
                                          THEN value ELSE th.loaded]]
    /\ UNCHANGED <<decisions_by_country, decisions_by_demographic, record_call, record_ret,
                   latency_ret>>
    /\ UNCHANGED <<engine_vars, graph_vars, detect_vars, aml_vars, str_vars, writer>>

Decisions == {"allow", "block", "review"}

(***************************************************************************)
(* Specifications                                                          *)
(***************************************************************************)
\* The engine of the graph specifications: constructed with the defaults, never called
EngineDefault ==
    /\ config = DefaultConfig
    /\ high_risk_threshold = 800
    /\ low_risk_threshold = 300
    /\ engine_pc = "ready"
    /\ call = <<>>
    /\ run = <<>>
    /\ prev = <<>>

\* The orchestrator alone: every loadable configuration, every call
EngineNext == ScoreTransaction \/ TakeDecision

EngineSpecInit ==
    /\ EngineInit /\ GraphInit /\ DetectIdle /\ AmlIdle /\ StrInit /\ MetricsInit
    /\ writer = [pc |-> "idle"]
    /\ threads = <<>>

EngineSpec == EngineSpecInit /\ [][EngineNext]_vars

\* The orchestrator with every call made a second time on the same engine
RepeatNext == EngineNext \/ ScoreAgain

RepeatSpec == EngineSpecInit /\ [][RepeatNext]_vars

\* The graph under single-threaded building; detectors are read as functions of G
GraphNext ==
    \/ \E id \in Ids, e \in AddedEntities : AddEntity(id, e[1], e[2])
    \/ \E s \in Ids, t \in Ids, r \in AddedRelations : AddRelationship(s, t, r)

\* Every component as constructed, the engine with the default configuration
GraphSpecInit ==
    /\ EngineDefault /\ GraphInit /\ DetectIdle /\ AmlIdle /\ StrInit /\ MetricsInit
    /\ writer = [pc |-> "idle"]
    /\ threads = <<>>

GraphSpec == GraphSpecInit /\ [][GraphNext]_vars

\* The graph with the detectors' traversal run step by step.  The traversal
\* reads adjacency_list only, so every edge is given the relation OWNS.
BfsNext ==
    \/ \E id \in Ids, t \in AddedTypes : AddEntity(id, t, EmptyDict)
    \/ \E s \in Ids, t \in Ids : AddRelationship(s, t, "OWNS")
    \/ \E u \in Ids, d \in RingDepths : DetectStart("ring", u, d)
    \/ \E u \in Ids : DetectStart("mule", u, MuleDepth)
    \/ BfsIterate
    \/ BfsExit
    \/ TakeResult

BfsSpec == GraphSpecInit /\ [][BfsNext]_vars

\* A detector call, once started, runs to its return: the loop is sequential
\* code with no suspension point
BfsFairSpec == BfsSpec /\ WF_vars(BfsIterate) /\ WF_vars(BfsExit)

\* The graph with its four read-only methods called between the updates
LookupNext ==
    \/ BfsNext
    \/ \E id \in Ids : GetRiskFactors(id)
    \/ \E id \in Ids, f \in {NoneArg, DictArg({"OWNS"}), DictArg({"USES"})} :
           FindRelatedTransactions(id, f)

LookupSpec == GraphSpecInit /\ [][LookupNext]_vars

\* The traversal called directly on every graph of up to MaxPathEdges edges,
\* from ids inside and outside the graph, to the depths 0 to 3
TraversalNext ==
    \/ \E s \in Ids, t \in Ids : AddLink(s, t)
    \/ \E start_id \in Ids, max_depth \in 0..3 : BfsNeighbors(start_id, max_depth)
    \/ TakeResult

TraversalSpec == GraphSpecInit /\ [][TraversalNext]_vars

\* One thread inserts edges statement by statement while another runs the
\* detectors and find_related_transactions on the same graph
SharedGraphNext ==
    \/ \E s \in Ids, t \in Ids : AddRelationshipEnter(s, t, "OWNS")
    \/ AddRelationshipStep
    \/ \E u \in Ids : DetectStart("ring", u, RingDepth)
    \/ \E u \in Ids : DetectStart("mule", u, MuleDepth)
    \/ BfsIterate
    \/ BfsExit
    \/ TakeResult
    \/ \E id \in Ids : FindRelatedTransactions(id, NoneArg)

SharedGraphSpec == GraphSpecInit /\ [][SharedGraphNext]_vars

\* The screening methods of the AML rules engine, called in any order
ScreeningNext ==
    \/ \E name \in SanctionsNames, country \in {"US", "KP", "IR", "SY", "kp", ""} :
           ScreenSanctions(name, country)
    \/ \E name \in PepNames : ScreenPep(name)
    \/ \E n \in VelocityCounts, amount \in VelocityAmounts :
           CheckVelocityAbuse("usr_1", n, amount)

ScreeningSpec == GraphSpecInit /\ [][ScreeningNext]_vars

\* One STRFilingQueue: fresh reports are enqueued; file_str is asked for every
\* id the queue can have issued and for one that is not padded
StrNext ==
    \/ \E risk_score \in {700, 950} : EnqueueStr(FreshReport(risk_score))
    \/ \E report_id \in {ReportId(n) : n \in 0..(MaxReports - 1)}
                         \cup {<<"s","t","r","_","0">>} : FileStr(report_id)

StrSpec == GraphSpecInit /\ [][StrNext]_vars

\* One MetricsCollector, its record_decision called from a single thread
MetricsNext ==
    \E decision \in Decisions, latency_ms \in {10, 20},
       context \in {NoneArg, DictArg(EmptyDict), DictArg([country |-> "US"]),
                    DictArg([demographic_segment |-> "18-25"]),
                    DictArg([country |-> "DE", demographic_segment |-> "18-25"])} :
        RecordDecision(decision, 500, latency_ms, "v1.0.0", context)

MetricsSpec == GraphSpecInit /\ [][MetricsNext]_vars

\* One MetricsCollector shared by two threads, each making one call of
\* record_decision or of record_fraud_feedback
SharedCollectorNext ==
    \E t \in {"t1", "t2"} :
        \/ \E decision \in Decisions :
               ThreadCall(t, [method |-> "record_decision", decision |-> decision,
                              latency_ms |-> 10])
        \/ \E decision \in {"allow", "block"}, actual_fraud \in BOOLEAN :
               ThreadCall(t, [method |-> "record_fraud_feedback", decision |-> decision,
                              actual_fraud |-> actual_fraud])
        \/ ThreadStep(t)

SharedCollectorSpec == GraphSpecInit /\ [][SharedCollectorNext]_vars

\* The collector's latency window: samples of three sizes recorded in any
\* order, the percentiles queried between the recordings
LatencyNext ==
    \/ \E decision \in Decisions, latency_ms \in {10, 20, 30} :
           RecordDecision(decision, 500, latency_ms, "v1.0.0", NoneArg)
    \/ GetLatencyMetrics

LatencySpec == GraphSpecInit /\ [][LatencyNext]_vars

(***************************************************************************)
(* Claims about the decision orchestrator, checked under EngineSpec        *)
(***************************************************************************)
Returned == engine_pc = "returned"
NonFailing == Returned /\ run.failed_at = "none"
AmlOn == DictGet(config, "enable_aml_screening", FALSE)
GraphOn == DictGet(config, "enable_graph_analysis", FALSE)

\* w_ml*ml + w_rules*rules of the last call, from the configured weights
Blend ==
    LET w == DictGet(config, "model_weights", DefaultWeights)
    IN  (w["ml_score"] * call.ml.score + w["rules_score"] * call.rules.score) \div 10

\* C1 (override law): with AML screening and graph analysis both enabled, the
\* risk_score returned on the non-failing path is the largest of the weighted
\* ML/rules blend, the AML score and the graph score.
C1_OverrideLaw ==
    (NonFailing /\ AmlOn /\ GraphOn) =>
        /\ run.ret.risk_score \in {Blend, call.aml.score, call.graph.score}
        /\ run.ret.risk_score >= Blend
        /\ run.ret.risk_score >= call.aml.score
        /\ run.ret.risk_score >= call.graph.score

\* C1 witness: a clean ML/rules view overridden by a strong AML score
C1_Witness ==
    /\ NonFailing /\ AmlOn /\ GraphOn
    /\ call.aml.score > Blend /\ call.aml.score > call.graph.score
    /\ call.graph.score > 0 /\ Blend > 0
    /\ run.ret.risk_score = call.aml.score

\* C2 (decision policy): on the non-failing path the decision is BLOCK when
\* the returned risk_score is at least the high threshold, otherwise ALLOW
\* when it is at most the low threshold, otherwise REVIEW; and the returned
\* risk_score is the score the policy stage was applied to.
C2_DecisionPolicy ==
    NonFailing =>
        /\ run.ret.decision =
               IF run.ret.risk_score >= high_risk_threshold THEN "BLOCK"
               ELSE IF run.ret.risk_score <= low_risk_threshold THEN "ALLOW"
               ELSE "REVIEW"
        /\ run.ret.risk_score = run.policy.risk_score

\* C2 witness: a score exactly on the high threshold is blocked
C2_Witness ==
    /\ NonFailing
    /\ run.ret.risk_score = high_risk_threshold
    /\ run.ret.decision = "BLOCK"

PipelineStages == {"ENRICH", "MODEL_SCORE", "RULES_SCORE", "COMBINE",
                   "AML_SCORE", "GRAPH_SCORE", "POLICY"}

\* C3 (fail-safe): when a stage from ENRICH to POLICY raises, the call still
\* returns, and returns REVIEW with risk_score 0.5, reason_codes
\* [ENGINE_ERROR] and next_actions [MANUAL_REVIEW]; an injected fault in a
\* stage that runs is never swallowed into a normal decision.
C3_FailSafe ==
    Returned =>
        /\ run.failed_at \in PipelineStages =>
               /\ run.ret.decision = "REVIEW"
               /\ run.ret.risk_score = 500
               /\ run.ret.reason_codes = <<ENGINE_ERROR>>
               /\ run.ret.next_actions = <<"MANUAL_REVIEW">>
        /\ call.fault \in {"ENRICH", "MODEL_SCORE", "RULES_SCORE"} =>
               run.failed_at = call.fault

\* C3 witness: the model-score stage threw
C3_Witness ==
    /\ Returned
    /\ call.fault = "MODEL_SCORE"
    /\ run.failed_at = "MODEL_SCORE"
    /\ run.trace = <<"ENRICH", "MODEL_SCORE">>

\* C4 (log failure is harmless), as claimed: whenever the stages ENRICH to
\* POLICY have completed, the returned decision, risk_score, reason_codes and
\* next_actions are those the policy stage computed, whether or not
\* _log_compliance raises.
C4_LogFailureKeepsDecision ==
    (Returned /\ ~run.policy.raised) =>
        /\ run.ret.decision = run.policy.decision_obj.decision
        /\ run.ret.risk_score = run.policy.decision_obj.risk_score
        /\ run.ret.reason_codes = run.policy.decision_obj.reason_codes
        /\ run.ret.next_actions = run.policy.decision_obj.next_actions

\* C5 (score range), as claimed: every returned RiskDecision has its
\* risk_score in [0, 1], for every loadable configuration.
C5_ScoreRange ==
    Returned => (run.ret.risk_score >= 0 /\ run.ret.risk_score <= 1000)

DecisionCode(decision) ==
    CASE decision = "ALLOW" -> LOW_RISK
      [] decision = "REVIEW" -> MEDIUM_RISK
      [] decision = "BLOCK" -> HIGH_RISK_SCORE

\* codes are the codes of k signals of sigs with the largest weights, in
\* descending weight order
IsTopByWeight(codes, sigs, k) ==
    \E idx \in [1..k -> 1..Len(sigs)] :
        /\ \A i, j \in 1..k : i # j => idx[i] # idx[j]
        /\ \A i \in 1..k : codes[i] = ReasonCode(sigs[idx[i]].signal_name)
        /\ \A i \in 1..(k - 1) : sigs[idx[i]].weight >= sigs[idx[i + 1]].weight
        /\ \A j \in 1..Len(sigs) :
               (\A i \in 1..k : idx[i] # j) =>
                   \A i \in 1..k : sigs[j].weight <= sigs[idx[i]].weight

\* C6 (reason codes), as claimed: on the non-failing path reason_codes is the
\* decision-level code followed by the codes of the min(3, n) signals with the
\* largest weights among all n signals of the decision, in descending order.
C6_ReasonCodes ==
    NonFailing =>
        LET sigs == run.ret.reasons
            codes == run.ret.reason_codes
            k == Min(3, Len(sigs))
        IN  /\ Len(codes) = 1 + k
            /\ codes[1] = DecisionCode(run.ret.decision)
            /\ IsTopByWeight(SubSeq(codes, 2, Len(codes)), sigs, k)

DecisionActions(decision) ==
    CASE decision = "BLOCK" ->
             <<"BLOCK", "ESCALATE_TO_COMPLIANCE", "STORE_FOR_INVESTIGATION">>
      [] decision = "ALLOW" -> <<"APPROVE", "MONITOR">>
      [] decision = "REVIEW" -> <<"MANUAL_REVIEW", "REQUEST_ADDITIONAL_VERIFICATION">>

\* The context of the last call names the United States as user_country
CallCountryIsUS ==
    /\ "user_country" \in DOMAIN call.context.d
    /\ call.context.d["user_country"] = "US"

\* C7 (next actions): on the non-failing path next_actions is the
\* decision-specific list, with SCA_STEP_UP appended as last element exactly
\* when the context's user_country is not "US" (absent counts as not "US").
C7_NextActions ==
    NonFailing =>
        run.ret.next_actions =
            IF CallCountryIsUS
            THEN DecisionActions(run.ret.decision)
            ELSE Append(DecisionActions(run.ret.decision), "SCA_STEP_UP")

\* C7 witness: a context without user_country gets the step-up
C7_Witness ==
    /\ NonFailing
    /\ call.context.d = EmptyDict
    /\ run.ret.next_actions[Len(run.ret.next_actions)] = "SCA_STEP_UP"


(***************************************************************************)
(* Claims about the entity graph                                           *)
(***************************************************************************)
\* An OWNS edge from source_id to target_id is in edges
Owns(source_id, target_id) ==
    \E i \in 1..Len(edges) :
        /\ edges[i].source_id = source_id
        /\ edges[i].target_id = target_id
        /\ edges[i].relation_type = "OWNS"

\* u1 and u2 are distinct USER nodes that both own the DEVICE node d
SharedDevice(u1, u2, d) ==
    /\ u1 # u2
    /\ {u1, u2, d} \subseteq DOMAIN nodes
    /\ nodes[u1].entity_type = "USER"
    /\ nodes[u2].entity_type = "USER"
    /\ nodes[d].entity_type = "DEVICE"
    /\ Owns(u1, d)
    /\ Owns(u2, d)

\* A pattern code that mentions shared devices
MentionsSharedDevices(patterns) ==
    \E i \in 1..Len(patterns) : patterns[i][1] \in {"SHARED_DEVICES_RING", "SHARED_DEVICES"}

\* C8 (shared-device ring), as claimed, under GraphSpec: when two distinct
\* USER nodes own the same DEVICE node, detect_fraud_ring on either of them
\* returns a positive risk_score, a pattern code mentioning shared devices and
\* related users containing both.
C8_SharedDeviceRing ==
    \A u1 \in Ids, u2 \in Ids, d \in Ids :
        SharedDevice(u1, u2, d) =>
            \A u \in {u1, u2} :
                LET r == detect_fraud_ring(G, u, RingDepth)
                IN  /\ r.risk_score > 0
                    /\ MentionsSharedDevices(r.suspicious_patterns)
                    /\ {u1, u2} \subseteq r.related_users

\* In every traversal each node is added to visited (and has its neighbours
\* enumerated) at most once, and what the loop has popped plus what is still
\* queued never exceeds 1 + |edges|
ExpandsOnce ==
    /\ \A id \in Ids : expansions[id] <= 1
    /\ iterations + Len(queue) <= 1 + Len(edges)
    /\ detect_pc = "returned" => queue = <<>>

\* C9 (BFS termination), under BfsFairSpec: on every graph built by
\* add_entity/add_relationship (cycles, self-loops and duplicate edges
\* included) a traversal started by detect_fraud_ring or detect_mule_network
\* expands each node at most once, and the detector returns.
C9_BfsTerminates ==
    /\ []ExpandsOnce
    /\ (detect_pc = "bfs") ~> (detect_pc = "returned")

\* C9 witness: a traversal over a graph with a cycle or a duplicate edge has
\* returned, having popped an entry whose node was already visited
C9_Witness ==
    /\ detect_pc = "returned"
    /\ Len(edges) >= 2
    /\ \/ edges[1] = edges[2]
       \/ edges[1].source_id = edges[2].target_id
    /\ iterations > Cardinality(visited)
    /\ Cardinality(visited) >= 2

\* Every edge's endpoints are keys of nodes
EndpointsAreNodes ==
    \A i \in 1..Len(edges) :
        {edges[i].source_id, edges[i].target_id} \subseteq DOMAIN nodes

\* This step is a call of add_relationship: it appended an edge
AppendsEdge == Len(edges') = Len(edges) + 1

\* The edge a call of add_relationship appended
NewEdge == edges'[Len(edges')]

\* The step leaves every node that existed as it was
KeepsExistingNodes ==
    \A id \in DOMAIN nodes : id \in DOMAIN nodes' /\ nodes'[id] = nodes[id]

\* C10 (edge endpoints), as claimed, under GraphSpec: every edge's endpoints
\* are keys of nodes; add_relationship creates a missing source as a USER
\* node and a missing target as a DEVICE node and leaves existing nodes alone.
C10_EndpointsAsClaimed ==
    /\ []EndpointsAreNodes
    /\ [][AppendsEdge =>
            /\ NewEdge.source_id \notin DOMAIN nodes =>
                   nodes'[NewEdge.source_id].entity_type = "USER"
            /\ NewEdge.target_id \notin DOMAIN nodes =>
                   nodes'[NewEdge.target_id].entity_type = "DEVICE"
            /\ KeepsExistingNodes]_vars

\* C10 amended, under GraphSpec: every edge's endpoints are keys of nodes;
\* add_relationship creates a missing source as a USER node and a missing
\* target that is not also the source as a DEVICE node (a missing node that
\* is both source and target becomes a USER node), and leaves existing nodes
\* alone.
C10_Endpoints ==
    /\ []EndpointsAreNodes
    /\ [][AppendsEdge =>
            /\ NewEdge.source_id \notin DOMAIN nodes =>
                   nodes'[NewEdge.source_id].entity_type = "USER"
            /\ (NewEdge.target_id \notin DOMAIN nodes
                    /\ NewEdge.target_id # NewEdge.source_id) =>
                   nodes'[NewEdge.target_id].entity_type = "DEVICE"
            /\ KeepsExistingNodes
            /\ DOMAIN nodes' = DOMAIN nodes \cup {NewEdge.source_id, NewEdge.target_id}]_vars

\* C10 witness: an edge between an auto-created USER source and an
\* auto-created DEVICE target, beside an existing node added with attributes
C10_Witness ==
    /\ Len(edges) >= 1
    /\ edges[1].source_id = "e1" /\ edges[1].target_id = "e3"
    /\ nodes["e1"] = EntityNode("e1", "USER", EmptyDict)
    /\ nodes["e3"] = EntityNode("e3", "DEVICE", EmptyDict)
    /\ "e2" \in DOMAIN nodes /\ nodes["e2"].attributes # EmptyDict
    /\ Len(edges) = 2 /\ edges[2].source_id = "e2"

\* C11 (first write wins), as claimed, under GraphSpec: a call of add_entity
\* for an id that is already a node leaves that node's entity_type as it was,
\* and a second add_entity with the same arguments changes nothing.
C11_FirstWriteWins ==
    [][/\ \A id \in DOMAIN nodes :
              id \in DOMAIN nodes' /\ nodes'[id].entity_type = nodes[id].entity_type
       /\ \A id \in Ids, e \in AddedEntities :
              LET once == add_entity(G, id, e[1], e[2])
              IN  add_entity(once, id, e[1], e[2]) = once]_vars

\* The targets of the edges that leave a set of entities
Successors(ids) ==
    {edges[i].target_id : i \in {j \in 1..Len(edges) : edges[j].source_id \in ids}}

\* The entities within directed distance k of a set of entities
RECURSIVE Within(_, _)
Within(ids, k) == IF k = 0 THEN ids ELSE Within(ids \cup Successors(ids), k - 1)

\* The entities of a type within directed distance k of id
TypedWithin(id, k, entity_type) ==
    {eid \in Within({id}, k) : eid \in DOMAIN nodes /\ nodes[eid].entity_type = entity_type}

\* The distinct sources of the OWNS edges into target_id
Owners(target_id) == {source_id \in Ids : Owns(source_id, target_id)}

\* Something user_id owns has more than one distinct owner
OwnsSharedDevice(user_id) ==
    \E d \in Ids : Owns(user_id, d) /\ Cardinality(Owners(d)) > 1

\* The thresholds detect_mule_network is called with
MuleThresholds == {0, 1, ThresholdConnections}

\* C12 (mule score), as claimed, under GraphSpec: for a known user the score
\* of detect_mule_network is min(1, 0.3*[D > threshold] + 0.2*[P > 3] + 0.25*[S]),
\* D and P counting the DEVICE and PAYMENT_METHOD entities within directed
\* distance 2 and S holding exactly when something the user OWNS has more than
\* one distinct owner; for an unknown user the result is (0, []).
C12_MuleScore ==
    \A user_id \in Ids, threshold \in MuleThresholds :
        LET r == detect_mule_network(G, user_id, threshold)
            D == Cardinality(TypedWithin(user_id, 2, "DEVICE"))
            P == Cardinality(TypedWithin(user_id, 2, "PAYMENT_METHOD"))
        IN  IF user_id \in DOMAIN nodes
            THEN r.risk_score = Min(100, (IF D > threshold THEN 30 ELSE 0)
                                         + (IF P > 3 THEN 20 ELSE 0)
                                         + (IF OwnsSharedDevice(user_id) THEN 25 ELSE 0))
            ELSE r.risk_score = 0 /\ r.suspicious_patterns = <<>>

\* The ring members: the USER nodes the traversal of the given depth reaches
RingMembers(user_id, depth) == TypedWithin(user_id, depth, "USER")

\* The resources of a type that more than one distinct member owns
SharedByMembers(members, resource_type) ==
    {rid \in DOMAIN nodes :
        /\ nodes[rid].entity_type = resource_type
        /\ Cardinality(Owners(rid) \cap members) > 1}

\* C13 (ring score), as claimed, under GraphSpec: for a known user the ring
\* members are the USER nodes the depth-bounded traversal reaches, a resource
\* is shared exactly when more than one distinct member has an OWNS edge to
\* it, the score is min(1, 0.35*[shared devices >= 2] + 0.25*[shared payment
\* methods >= 1] + 0.20*[shared IPs >= 2]) and there is one pattern code per
\* term that fired.
C13_RingScore ==
    \A user_id \in DOMAIN nodes, depth \in RingDepths :
        LET r == detect_fraud_ring(G, user_id, depth)
            members == RingMembers(user_id, depth)
            dev == Cardinality(SharedByMembers(members, "DEVICE")) >= 2
            pay == Cardinality(SharedByMembers(members, "PAYMENT_METHOD")) >= 1
            ips == Cardinality(SharedByMembers(members, "IP_ADDRESS")) >= 2
        IN  /\ r.related_users = members
            /\ r.risk_score = Min(100, (IF dev THEN 35 ELSE 0) + (IF pay THEN 25 ELSE 0)
                                       + (IF ips THEN 20 ELSE 0))
            /\ Len(r.suspicious_patterns) = (IF dev THEN 1 ELSE 0) + (IF pay THEN 1 ELSE 0)
                                            + (IF ips THEN 1 ELSE 0)

(***************************************************************************)
(* Claims about the read-only methods of the graph, checked under          *)
(* LookupSpec                                                              *)
(***************************************************************************)
\* The id the call in progress asks about
LookupId ==
    IF detect_call.kind = "risk_factors" THEN detect_call.entity_id ELSE detect_call.user_id

\* A lookup of an id that is not a key of nodes has returned
UnknownLookup == detect_pc = "returned" /\ LookupId \notin DOMAIN nodes

\* What each method returns for an unknown id
EmptyResult ==
    IF detect_call.kind = "mule"
    THEN detect_ret.risk_score = 0 /\ detect_ret.suspicious_patterns = <<>>
    ELSE IF detect_call.kind = "ring"
    THEN /\ detect_ret.risk_score = 0
         /\ detect_ret.suspicious_patterns = <<>>
         /\ detect_ret.related_users = {}
    ELSE IF detect_call.kind = "risk_factors" THEN DOMAIN detect_ret = {}
    ELSE Len(detect_ret) = 0

\* C14 (unknown ids), under LookupSpec: for an id that is not a key of nodes,
\* detect_mule_network returns (0, []), detect_fraud_ring returns (0, [], []),
\* get_risk_factors returns an empty map and find_related_transactions an
\* empty list; no call of the four changes nodes, edges or adjacency_list.
C14_UnknownLookups ==
    /\ [](UnknownLookup => EmptyResult)
    /\ [][detect_pc' # "idle" => UNCHANGED graph_vars]_vars

\* C14 witness: find_related_transactions has returned for an id that is no
\* node of a graph that has edges and other nodes
C14_Witness ==
    /\ UnknownLookup
    /\ detect_call.kind = "related"
    /\ detect_call.relation_types.is_none
    /\ Len(edges) >= 1

(***************************************************************************)
(* Claims about the AML rules engine, checked under ScreeningSpec          *)
(***************************************************************************)
\* name contains entry, case-insensitively
MatchesName(name, entry) == Contains(StrLower(name), StrLower(entry))

\* How many entries of a configured list match the name
ListMatches(list, name) ==
    Cardinality({i \in 1..Len(list.entities) : MatchesName(name, list.entities[i])})

\* How many entries of all configured lists match the name
AllMatches(name) ==
    Cardinality(UNION {{<<l, i>> : i \in {j \in 1..Len(sanctions_lists[l].entities) :
                                      MatchesName(name, sanctions_lists[l].entities[j])}} :
                       l \in 1..Len(sanctions_lists)})

\* How many of the codes have the given parts
CodeCount(codes, first, second) ==
    Cardinality({i \in 1..Len(codes) : codes[i][1] = first /\ codes[i][2] = second})

\* How many of the codes start with the given part
PrefixCount(codes, first) == Cardinality({i \in 1..Len(codes) : codes[i][1] = first})

\* C15 (sanctions by max), under ScreeningSpec: the score of screen_sanctions
\* is max(0.95 if a list entry is a case-insensitive substring of the name else
\* 0, 0.85 if the country is KP, IR or SY else 0), one of 0, 0.85, 0.95; there
\* is one SANCTIONS_<LIST>_HIT code and one hit per matching entry, a
\* HIGH_RISK_COUNTRY_<country> code exactly when the country is high-risk, and
\* (0, [], []) when neither source matches.
C15_SanctionsMax ==
    aml_call.method = "screen_sanctions" =>
        LET name == aml_call.entity_name
            country == aml_call.entity_country
            by_name == IF AllMatches(name) > 0 THEN 950 ELSE 0
            by_country == IF country \in {"KP", "IR", "SY"} THEN 850 ELSE 0
        IN  /\ aml_ret.risk_score = Max(by_name, by_country)
            /\ aml_ret.risk_score \in {0, 850, 950}
            /\ Len(aml_ret.hits) = AllMatches(name)
            /\ \A l \in 1..Len(sanctions_lists) :
                   CodeCount(aml_ret.reason_codes, "SANCTIONS",
                             StrUpper(sanctions_lists[l].list_type))
                       = ListMatches(sanctions_lists[l], name)
            /\ PrefixCount(aml_ret.reason_codes, "SANCTIONS") = AllMatches(name)
            /\ CodeCount(aml_ret.reason_codes, "HIGH_RISK_COUNTRY", country)
                   = (IF by_country > 0 THEN 1 ELSE 0)
            /\ PrefixCount(aml_ret.reason_codes, "HIGH_RISK_COUNTRY")
                   = (IF by_country > 0 THEN 1 ELSE 0)
            /\ Len(aml_ret.reason_codes)
                   = AllMatches(name) + (IF by_country > 0 THEN 1 ELSE 0)
            /\ (by_name = 0 /\ by_country = 0) =>
                   aml_ret = [risk_score |-> 0, reason_codes |-> <<>>, hits |-> <<>>]

\* C15 witness: a name that holds two list entries in another case, screened
\* with a high-risk country, scored 0.95 and not 1.8
C15_Witness ==
    /\ aml_call.method = "screen_sanctions"
    /\ aml_call.entity_country = "KP"
    /\ Len(aml_ret.hits) = 2
    /\ aml_call.entity_name # StrLower(aml_call.entity_name)
    /\ Len(aml_ret.reason_codes) = 3
    /\ aml_ret.risk_score = 950

\* The registry entries that match the name, in iteration order
PepMatches(name) ==
    SelectSeq(pep_database, LAMBDA entry : MatchesName(name, entry.pep_name))

\* The score and the code of a PEP level
LevelScore(pep_level) ==
    CASE pep_level = "DIRECT" -> 950
      [] pep_level = "FAMILY" -> 700
      [] pep_level = "CLOSE_ASSOCIATE" -> 500

LevelCode(pep_level) ==
    CASE pep_level = "DIRECT" -> "PEP_DIRECT"
      [] pep_level = "FAMILY" -> "PEP_FAMILY"
      [] pep_level = "CLOSE_ASSOCIATE" -> "PEP_CLOSE_ASSOCIATE"

\* C16 (PEP multi-match), under ScreeningSpec: when a name matches several
\* registry entries the score of screen_pep is the level score of the last
\* matching entry in iteration order, not the maximum; reason codes and
\* matches hold one element per matching entry in that order; with no match
\* the result is (0, [], []).
C16_PepLastMatch ==
    aml_call.method = "screen_pep" =>
        LET matching == PepMatches(aml_call.entity_name)
        IN  IF matching = <<>>
            THEN aml_ret = [risk_score |-> 0, reason_codes |-> <<>>, matches |-> <<>>]
            ELSE /\ aml_ret.risk_score = LevelScore(matching[Len(matching)].pep_level)
                 /\ Len(aml_ret.reason_codes) = Len(matching)
                 /\ Len(aml_ret.matches) = Len(matching)
                 /\ \A i \in 1..Len(matching) :
                        /\ aml_ret.reason_codes[i] = LevelCode(matching[i].pep_level)
                        /\ aml_ret.matches[i].pep_level = matching[i].pep_level
                        /\ aml_ret.matches[i].is_pep

\* C16 witness: a name matched a DIRECT entry and then a FAMILY entry and was
\* scored 0.7, below the 0.95 of its first match
C16_Witness ==
    /\ aml_call.method = "screen_pep"
    /\ Len(aml_ret.matches) = 2
    /\ aml_ret.reason_codes = <<"PEP_DIRECT", "PEP_FAMILY">>
    /\ aml_ret.risk_score = 700

\* The mean amount per transaction, n = 0 counted as one transaction, is
\* strictly between 9000 and 9900 (stated on quotient and remainder)
MeanInBand(n, amount) ==
    LET d == IF n = 0 THEN 1 ELSE n
    IN  /\ (amount \div d) >= 9000
        /\ (amount \div d) = 9000 => (amount % d) > 0
        /\ (amount \div d) < 9900

\* C17 (velocity abuse), under ScreeningSpec: check_velocity_abuse(user, n,
\* amount) returns min(1, 0.25*[n > 50] + 0.15*[amount > 100000] + 0.4*[9000 <
\* amount / max(n, 1) < 9900]) and its codes contain
\* STRUCTURING_PATTERN_DETECTED exactly when that mean is strictly inside the
\* band.
C17_VelocityScore ==
    aml_call.method = "check_velocity_abuse" =>
        LET n == aml_call.transactions_24h
            amount == aml_call.amount_24h
            sum == (IF n > 50 THEN 250 ELSE 0) + (IF amount > 100000 THEN 150 ELSE 0)
                   + (IF MeanInBand(n, amount) THEN 400 ELSE 0)
        IN  /\ aml_ret.risk_score = (IF sum > 1000 THEN 1000 ELSE sum)
            /\ PrefixCount(aml_ret.reason_codes, "STRUCTURING_PATTERN_DETECTED") > 0
                   <=> MeanInBand(n, amount)

\* C17 witness: no transactions and an amount inside the band: the call
\* divides by one and reports structuring alone
C17_Witness ==
    /\ aml_call.method = "check_velocity_abuse"
    /\ aml_call.transactions_24h = 0
    /\ aml_call.amount_24h = 9500
    /\ aml_ret.risk_score = 400
    /\ Len(aml_ret.reason_codes) = 1

(***************************************************************************)
(* Claims about the STR filing queue, checked under StrSpec.  The k-th     *)
(* enqueued report is the one with transaction_id <<"txn", k>>.            *)
(***************************************************************************)
\* Where the k-th enqueued report is in a list of reports
PlacesIn(reports, k) ==
    {i \in 1..Len(reports) : reports[i].transaction_id = <<"txn", k>>}

\* The reports that have been filed, by their number
FiledReports == {filed_strs[i].transaction_id[2] : i \in 1..Len(filed_strs)}

\* Every enqueued report is once in pending_strs as PENDING or once in
\* filed_strs as FILED, and nothing else is in the two lists
OnePlaceEach ==
    /\ \A k \in 1..enqueue_calls :
           Cardinality(PlacesIn(pending_strs, k)) + Cardinality(PlacesIn(filed_strs, k)) = 1
    /\ \A i \in 1..Len(pending_strs) : pending_strs[i].status = "PENDING"
    /\ \A i \in 1..Len(filed_strs) : filed_strs[i].status = "FILED"
    /\ Len(pending_strs) + Len(filed_strs) = enqueue_calls

\* C18 (STR lifecycle), under StrSpec: after any sequence of enqueue_str (of
\* fresh reports) and file_str calls every enqueued report is in exactly one
\* of pending_strs, with status PENDING, and filed_strs, with status FILED, and
\* in filed_strs at most once; a filed report never leaves filed_strs; the two
\* lengths add up to the number of enqueue_str calls.
C18_StrLifecycle ==
    /\ []OnePlaceEach
    /\ [][FiledReports \subseteq FiledReports']_vars

\* C18 witness: reports were filed and enqueued in turn, so that a pending
\* report carries the report_id of a filed one
C18_Witness ==
    /\ Len(filed_strs) >= 2
    /\ Len(pending_strs) >= 1
    /\ \E i \in 1..Len(pending_strs), j \in 1..Len(filed_strs) :
           pending_strs[i].report_id = filed_strs[j].report_id

\* The pending reports that carry the id
Carrying(report_id) ==
    {i \in 1..Len(pending_strs) : pending_strs[i].report_id = report_id}

\* The step removes the pending report at place i, keeps the others in their
\* order and appends the removed report to filed_strs
MovesToFiled(i) ==
    /\ Len(pending_strs') = Len(pending_strs) - 1
    /\ \A j \in 1..Len(pending_strs) :
           /\ j < i => pending_strs'[j] = pending_strs[j]
           /\ j > i => pending_strs'[j - 1] = pending_strs[j]
    /\ Len(filed_strs') = Len(filed_strs) + 1
    /\ SubSeq(filed_strs', 1, Len(filed_strs)) = filed_strs
    /\ filed_strs'[Len(filed_strs')].transaction_id = pending_strs[i].transaction_id

\* C19 (file_str), under StrSpec: file_str with an id that no pending report
\* carries returns false and leaves both lists unchanged; with a matching id
\* it returns true, removes exactly the earliest-enqueued pending report that
\* carries the id, appends it to the end of filed_strs and keeps the order of
\* the other pending reports.
C19_FileStr ==
    [][str_call'.method = "file_str" =>
          IF Carrying(str_call'.report_id) = {}
          THEN str_ret' = FALSE /\ UNCHANGED <<pending_strs, filed_strs>>
          ELSE /\ str_ret' = TRUE
               /\ \E i \in Carrying(str_call'.report_id) :
                      /\ \A j \in Carrying(str_call'.report_id) :
                             pending_strs[i].transaction_id[2]
                                 <= pending_strs[j].transaction_id[2]
                      /\ MovesToFiled(i)]_vars

\* C19 witness: file_str returned true for an id that two pending reports
\* carried; one of the two is still pending
C19_Witness ==
    /\ str_call.method = "file_str"
    /\ str_ret = TRUE
    /\ Len(pending_strs) >= 2
    /\ pending_strs[2].report_id = str_call.report_id
    /\ filed_strs[Len(filed_strs)].report_id = str_call.report_id

(***************************************************************************)
(* Claims about the metrics collector, checked under MetricsSpec           *)
(***************************************************************************)
\* The count a bias bucket holds for a segment and a decision
BucketCount(buckets, segment, decision) ==
    IF segment \in DOMAIN buckets THEN buckets[segment][decision] ELSE 0

\* The step adds one to the count of (segment, decision) when the context
\* names the segment under the key and the decision is allow or block, and
\* changes no other count
BucketsFollow(before, after, ctx, key, decision) ==
    \A segment \in DOMAIN before \cup DOMAIN after, d \in {"allow", "block"} :
        BucketCount(after, segment, d)
            = BucketCount(before, segment, d)
              + (IF key \in DOMAIN ctx /\ ctx[key] = segment /\ decision = d THEN 1 ELSE 0)

\* C20 (record_decision), as claimed, under MetricsSpec: every call with a
\* decision in {allow, block, review} and any context completes without error,
\* adds 1 to total_decisions and to the one matching counter, appends one
\* latency sample and changes only the allow or block count of the context's
\* country and demographic segment; total_decisions is the sum of the three
\* counters.
C20_RecordDecision ==
    [][LET decision == record_call'.decision
           ctx == IF record_call'.context.is_none THEN EmptyDict
                  ELSE record_call'.context.d
       IN  /\ record_ret' = "returned"
           /\ total_decisions' = total_decisions + 1
           /\ allowed_count' = allowed_count + (IF decision = "allow" THEN 1 ELSE 0)
           /\ blocked_count' = blocked_count + (IF decision = "block" THEN 1 ELSE 0)
           /\ review_count' = review_count + (IF decision = "review" THEN 1 ELSE 0)
           /\ latencies' = Append(latencies, record_call'.latency_ms)
           /\ BucketsFollow(decisions_by_country, decisions_by_country', ctx,
                            "country", decision)
           /\ BucketsFollow(decisions_by_demographic, decisions_by_demographic', ctx,
                            "demographic_segment", decision)
           /\ total_decisions' = allowed_count' + blocked_count' + review_count']_vars

(***************************************************************************)
(* Claims about the latency percentiles, checked under LatencySpec         *)
(***************************************************************************)
\* A query of the percentiles has returned and the window is as it read it
Queried == DOMAIN latency_ret # {}

\* The nearest-rank sample of the window for q hundredths, in halves of a
\* millisecond: sorted(samples)[min(floor(n * q), n - 1)]
RankSample(q) ==
    2 * sorted(latencies)[Min((Len(latencies) * q) \div 100, Len(latencies) - 1) + 1]

\* C21 (nearest-rank percentiles), as claimed, under LatencySpec: for a
\* non-empty window p50, p95 and p99 are the samples of rank
\* min(floor(n * q), n - 1) for q = 0.50, 0.95, 0.99, so each is a sample of
\* the window; for an empty window each is 0.
C21_NearestRank ==
    Queried =>
        IF latencies = <<>>
        THEN latency_ret = [p50_ms |-> 0, p95_ms |-> 0, p99_ms |-> 0]
        ELSE /\ latency_ret.p50_ms = RankSample(50)
             /\ latency_ret.p95_ms = RankSample(95)
             /\ latency_ret.p99_ms = RankSample(99)
             /\ \A k \in DOMAIN latency_ret :
                    \E i \in 1..Len(latencies) : latency_ret[k] = 2 * latencies[i]

\* The samples of the window are at least two and pairwise distinct
DistinctSamples ==
    /\ Len(latencies) >= 2
    /\ \A i, j \in 1..Len(latencies) : i # j => latencies[i] # latencies[j]

\* C22 (percentile monotonicity): after a non-empty sequence of
\* record_decision calls get_latency_metrics returns p50_ms <= p95_ms <=
\* p99_ms, and p95_ms > p50_ms when the samples are two or more pairwise
\* distinct values.
C22_PercentileOrder ==
    (Queried /\ latencies # <<>>) =>
        /\ latency_ret.p50_ms <= latency_ret.p95_ms
        /\ latency_ret.p95_ms <= latency_ret.p99_ms
        /\ DistinctSamples => latency_ret.p95_ms > latency_ret.p50_ms

\* C22 witness: three distinct samples recorded out of order, then queried
C22_Witness ==
    /\ Queried
    /\ latencies = <<30, 10, 20>>
    /\ latency_ret = [p50_ms |-> 40, p95_ms |-> 60, p99_ms |-> 60]

(***************************************************************************)
(* Claims about repeated calls of the orchestrator, checked under          *)
(* RepeatSpec                                                              *)
(***************************************************************************)
\* score_transaction has returned from a call whose arguments are those of
\* the call the caller kept
Repeated ==
    /\ Returned
    /\ DOMAIN prev # {}
    /\ call = prev.call

StageOrder == <<"ENRICH", "MODEL_SCORE", "RULES_SCORE", "COMBINE",
                "AML_SCORE", "GRAPH_SCORE", "POLICY", "LOG">>

\* The stage is one the configuration lets run
StageEnabled(stage) ==
    /\ stage = "AML_SCORE" => AmlOn
    /\ stage = "GRAPH_SCORE" => GraphOn

\* The positions in StageOrder of the stages the configuration lets run
EnabledPositions == {i \in 1..Len(StageOrder) : StageEnabled(StageOrder[i])}

\* The trace is the first stages the configuration lets run, in source order,
\* each once: the k-th stage of the trace is the k-th enabled stage
InStageOrder(trace) ==
    /\ Len(trace) <= Cardinality(EnabledPositions)
    /\ \A k \in 1..Len(trace) :
           \E i \in EnabledPositions :
               /\ trace[k] = StageOrder[i]
               /\ Cardinality({j \in EnabledPositions : j < i}) = k - 1

\* The outputs of the override stages the configuration lets run
EnabledOverrides ==
    (IF AmlOn THEN <<call.aml>> ELSE <<>>) \o (IF GraphOn THEN <<call.graph>> ELSE <<>>)

\* C26 (pipeline stage order): the stages of every run occur in the order
\* ENRICH, MODEL_SCORE, RULES_SCORE, COMBINE, AML_SCORE, GRAPH_SCORE, POLICY,
\* LOG, each at most once; AML_SCORE and GRAPH_SCORE run only when enabled and,
\* on a run that does not raise, exactly when enabled, and no other stage is
\* skipped; a run that raises stops at the stage that raised; the result of a
\* run that does not raise holds the reasons and the score of the combine stage
\* and of the enabled override stages only.
C26_StageOrder ==
    Returned =>
        /\ InStageOrder(run.trace)
        /\ run.failed_at = "none" => Len(run.trace) = Cardinality(EnabledPositions)
        /\ run.failed_at # "none" => run.trace[Len(run.trace)] = run.failed_at
        /\ run.failed_at = "none" =>
               LET c == _combine_scores(config, call.ml.score, call.ml.reasons,
                                        call.rules.score, call.rules.reasons)
                   overrides == EnabledOverrides
               IN  /\ run.ret.reasons
                          = c.all_reasons
                            \o (IF AmlOn THEN call.aml.reasons ELSE <<>>)
                            \o (IF GraphOn THEN call.graph.reasons ELSE <<>>)
                   /\ run.ret.risk_score \in
                          {c.combined_score} \cup {overrides[i].score : i \in 1..Len(overrides)}
                   /\ run.ret.risk_score >= c.combined_score
                   /\ \A i \in 1..Len(overrides) : run.ret.risk_score >= overrides[i].score

\* C26 witness: with AML screening disabled and graph analysis enabled a run
\* skipped AML_SCORE only, and the strong AML output left the result untouched
C26_Witness ==
    /\ Returned
    /\ run.failed_at = "none"
    /\ ~AmlOn
    /\ GraphOn
    /\ run.trace = <<"ENRICH", "MODEL_SCORE", "RULES_SCORE", "COMBINE",
                     "GRAPH_SCORE", "POLICY", "LOG">>
    /\ call.aml.score = 950
    /\ run.ret.risk_score < 950

(***************************************************************************)
(* Claims about report ids, checked under StrSpec                          *)
(***************************************************************************)
\* Every report the queue holds, pending first
AllReports == pending_strs \o filed_strs

\* C29 (unique report ids), as claimed, under StrSpec: after any sequence of
\* enqueue_str and file_str calls the report_ids of the reports in
\* pending_strs and filed_strs are pairwise distinct.
C29_UniqueReportIds ==
    \A i, j \in 1..Len(AllReports) :
        i # j => AllReports[i].report_id # AllReports[j].report_id

(***************************************************************************)
(* Claims about the adjacency index, checked under GraphSpec               *)
(***************************************************************************)
\* The target_ids of the edges with the given source, in insertion order
TargetsFrom(es, source_id) ==
    LET out == SelectSeq(es, LAMBDA edge : edge.source_id = source_id)
    IN  [i \in 1..Len(out) |-> out[i].target_id]

\* s is t with nothing or something appended
IsPrefix(s, t) == Len(s) <= Len(t) /\ SubSeq(t, 1, Len(s)) = s

\* Every node id has an adjacency entry, and the entry lists the targets of
\* the node's outgoing edges in insertion order, duplicates kept
AdjacencyMirrorsEdges ==
    /\ DOMAIN nodes \subseteq DOMAIN adjacency_list
    /\ \A s \in DOMAIN adjacency_list : adjacency_list[s] = TargetsFrom(edges, s)

\* C30 (adjacency mirrors edges), under GraphSpec: after any sequence of
\* add_entity and add_relationship calls every node id has an adjacency entry
\* equal to the target_ids of its outgoing edges in insertion order; no call
\* removes or reorders an edge or an adjacency entry, and a call that adds no
\* edge (add_entity, on a new or an existing id) leaves every edge and every
\* existing adjacency entry as it was.
C30_AdjacencyMirror ==
    /\ []AdjacencyMirrorsEdges
    /\ [][/\ IsPrefix(edges, edges')
          /\ \A s \in DOMAIN adjacency_list :
                 /\ s \in DOMAIN adjacency_list'
                 /\ IsPrefix(adjacency_list[s], adjacency_list'[s])
                 /\ Len(edges') = Len(edges) => adjacency_list'[s] = adjacency_list[s]]_vars

\* C30 witness: the same edge inserted twice, and its source and its target
\* added by add_entity as well (neither has the type add_relationship gives)
C30_Witness ==
    /\ Len(edges) = 2
    /\ edges[1].source_id = "e1" /\ edges[1].target_id = "e2"
    /\ edges[2].source_id = "e1" /\ edges[2].target_id = "e2"
    /\ adjacency_list["e1"] = <<"e2", "e2">>
    /\ adjacency_list["e2"] = <<>>
    /\ nodes["e1"] = EntityNode("e1", "USER", [kyc |-> TRUE])
    /\ nodes["e2"].entity_type = "PAYMENT_METHOD"

(***************************************************************************)
(* Claims about the traversal, checked under TraversalSpec                 *)
(***************************************************************************)
\* _bfs_neighbors has returned from a direct call
Traversed == detect_pc = "returned" /\ detect_call.kind = "bfs_neighbors"

\* The ids one adjacency step from a set of ids
AdjacentTo(ids) ==
    UNION {{adjacency_list[s][i] : i \in 1..Len(adjacency_list[s])} :
               s \in ids \cap DOMAIN adjacency_list}

\* The ids whose shortest directed distance over adjacency_list from one of
\* ids is at most k
RECURSIVE WithinDistance(_, _)
WithinDistance(ids, k) ==
    IF k = 0 THEN ids ELSE WithinDistance(ids \cup AdjacentTo(ids), k - 1)

\* C27 (depth-bounded traversal is exact), under TraversalSpec: for every
\* graph, every start node of the graph and every max_depth >= 0,
\* _bfs_neighbors returns exactly the ids whose shortest directed distance
\* from start over adjacency_list is at most max_depth, start included.
C27_ExactTraversal ==
    (Traversed /\ detect_call.start_id \in DOMAIN nodes) =>
        detect_ret = WithinDistance({detect_call.start_id}, detect_call.max_depth)

\* C27 witness: e3 is one step from e1 and also two steps from it through e2,
\* e1 is on a cycle, and the traversal from e2 to depth 1 stops short of e2's
\* second-level neighbours
C27_Witness ==
    /\ Traversed
    /\ adjacency_list = [e1 |-> <<"e2">>, e2 |-> <<"e3">>, e3 |-> <<"e1">>]
    /\ detect_call.start_id = "e2"
    /\ detect_call.max_depth = 1
    /\ detect_ret = {"e2", "e3"}

\* C28 (unknown start), as claimed, under TraversalSpec: _bfs_neighbors
\* called with a start id that is not a node of the graph returns the empty
\* set.
C28_UnknownStart ==
    (Traversed /\ detect_call.start_id \notin DOMAIN nodes) => detect_ret = {}

(***************************************************************************)
(* Claims about a graph shared by threads, checked under SharedGraphSpec   *)
(***************************************************************************)
\* A step of a reader that reads the graph: a detector or
\* find_related_transactions starts, or the traversal runs one more pass
ReaderReads == detect_pc # "returned" /\ detect_vars' # detect_vars

\* Each edge has both endpoints in nodes and its target_id in the adjacency
\* entry of its source, and each adjacency entry has its edge in edges
EdgesIndexed ==
    /\ \A i \in 1..Len(edges) :
           /\ {edges[i].source_id, edges[i].target_id} \subseteq DOMAIN nodes
           /\ edges[i].source_id \in DOMAIN adjacency_list
           /\ \E k \in 1..Len(adjacency_list[edges[i].source_id]) :
                  adjacency_list[edges[i].source_id][k] = edges[i].target_id
    /\ \A s \in DOMAIN adjacency_list :
           \A k \in 1..Len(adjacency_list[s]) :
               \E i \in 1..Len(edges) :
                   edges[i].source_id = s /\ edges[i].target_id = adjacency_list[s][k]

\* C24 (atomic edge insertion), as claimed, under SharedGraphSpec: while
\* add_relationship runs concurrently with detect_mule_network,
\* detect_fraud_ring or find_related_transactions, every state a reader reads
\* has each edge's endpoints in nodes, each edge's target_id in the adjacency
\* entry of its source, and each adjacency entry's edge in edges.
C24_AtomicInsertion == [][ReaderReads => EdgesIndexed]_vars

(***************************************************************************)
(* Claims about a collector shared by threads, checked under               *)
(* SharedCollectorSpec                                                     *)
(***************************************************************************)
\* The threads that called the method
Callers(method) == {t \in DOMAIN threads : threads[t].call.method = method}

\* Every call that was made has returned
AllReturned == \A t \in DOMAIN threads : threads[t].pc = "done"

\* C25 (atomic metric recording), as claimed, under SharedCollectorSpec: when
\* N concurrent record_decision calls and M concurrent record_fraud_feedback
\* calls have all returned, total_decisions = N, allowed_count +
\* blocked_count + review_count = N, the latency window holds N samples and
\* the four confusion counters sum to M.
C25_NoLostUpdate ==
    AllReturned =>
        LET N == Cardinality(Callers("record_decision"))
            M == Cardinality(Callers("record_fraud_feedback"))
        IN  /\ total_decisions = N
            /\ allowed_count + blocked_count + review_count = N
            /\ Len(latencies) = N
            /\ true_positives + false_positives + false_negatives + true_negatives = M

====
